---- MODULE Spec2Model ----
(***************************************************************************)
(* Model of the deterministic tariff engine of the port-tariff assistant:  *)
(* the rule model (src/models/schema.py), the condition evaluator, the     *)
(* applicability check, the band matcher and the cost calculator           *)
(* (src/models/utils.py) and the orchestrator TariffCalculator.calculate   *)
(* (src/core/calculator.py).                                               *)
(*                                                                         *)
(* Conventions.                                                            *)
(*  - A Python value (None, number, string, bool) is a record              *)
(*    [t, n, s]: t is its type tag, n its number, s its string.            *)
(*  - An Optional[record] (a band, a rule) is a sequence: <<>> is None,    *)
(*    <<r>> is r.                                                          *)
(*  - A dict is a function whose DOMAIN is the set of keys present.        *)
(*  - Money is counted in hundredths of a SEK (rate 12.5 SEK is 1250), so  *)
(*    that the rates of the fixtures and the percentages are integers.     *)
(*  - Strings are atomic in TLA+: lower(), substring tests and the number  *)
(*    extraction are tables over the finite vocabulary of the model.       *)
(***************************************************************************)
EXTENDS Integers, Sequences, FiniteSets, TLC

VARIABLES database, calls, band_query, cond_query, eval_query, cost_query,
          rules_query, load_query, workflow

vars ==
  <<database, calls, band_query, cond_query, eval_query, cost_query,
    rules_query, load_query, workflow>>

(***************************************************************************)
(* Python values                                                           *)
(***************************************************************************)
NoneV == [t |-> "none", n |-> 0, s |-> ""]

Num(n) == [t |-> "num", n |-> n, s |-> ""]

\* A float that came out of float("..."): str() of it ends in ".0".
Flt(n) == [t |-> "num", n |-> n, s |-> ".0"]

Str(s) == [t |-> "str", n |-> 0, s |-> s]

Bool(b) == [t |-> "bool", n |-> IF b THEN 1 ELSE 0, s |-> ""]

IsNone(v) == v.t = "none"

\* isinstance(v, (int, float)): a bool is an int.
IsNumber(v) == v.t \in {"num", "bool"}

IsStr(v) == v.t = "str"

\* bool(v)
Truthy(v) ==
  CASE v.t = "none" -> FALSE
    [] v.t = "str" -> v.s # ""
    [] OTHER -> v.n # 0

\* Python's ==
ValueEq(a, b) ==
  IF IsNumber(a) /\ IsNumber(b) THEN a.n = b.n
  ELSE a.t = b.t /\ a.s = b.s

\* dict.get(key) and dict.get(key, default)
ContextGet(context, key) ==
  IF key \in DOMAIN context THEN context[key] ELSE NoneV

ContextGetOr(context, key, default) ==
  IF key \in DOMAIN context THEN context[key] ELSE default

MinOf(S) == CHOOSE x \in S : \A y \in S : x <= y

(***************************************************************************)
(* Strings of the model's vocabulary                                       *)
(***************************************************************************)
LowerOf ==
  ("EU" :> "eu") @@ ("non-EU" :> "non-eu") @@ ("non_EU" :> "non_eu") @@
  ("European ports" :> "european ports") @@
  ("non-European ports" :> "non-european ports") @@
  ("True" :> "true") @@ ("False" :> "false") @@ ("None" :> "none")

\* str.lower()
Lower(s) == IF s \in DOMAIN LowerOf THEN LowerOf[s] ELSE s

\* The probe substrings ("non", "eu", "europe", "european", "valid", "has",
\* "true", "11", "more than") that each vocabulary string contains.
Fragments ==
  ("eu" :> {"eu"}) @@ ("europe" :> {"eu", "europe"}) @@
  ("european" :> {"eu", "europe", "european"}) @@
  ("non-eu" :> {"non", "eu"}) @@ ("non_eu" :> {"non", "eu"}) @@
  ("european ports" :> {"eu", "europe", "european"}) @@
  ("non-european ports" :> {"non", "eu", "europe", "european"}) @@
  ("more than" :> {"more than"}) @@
  ("11" :> {"11"}) @@ ("11 m3" :> {"11"}) @@
  ("true" :> {"true"}) @@ ("valid certificate" :> {"valid"})

\* sub in s
Contains(s, sub) ==
  s = sub \/ (s \in DOMAIN Fragments /\ sub \in Fragments[s])

Digit == <<"0", "1", "2", "3", "4", "5", "6", "7", "8", "9">>

RECURSIVE Numeral(_)
\* str(n) of an integer
Numeral(n) ==
  IF n < 0 THEN "-" \o Numeral(0 - n)
  ELSE IF n < 10 THEN Digit[n + 1]
  ELSE Numeral(n \div 10) \o Digit[(n % 10) + 1]

\* str(v)
StrOf(v) ==
  CASE v.t = "str" -> v.s
    [] v.t = "num" -> Numeral(v.n) \o v.s
    [] v.t = "bool" -> IF v.n = 1 THEN "True" ELSE "False"
    [] OTHER -> "None"

RECURSIVE DecimalHas11(_)
\* "11" in str(n), n >= 0
DecimalHas11(n) ==
  n >= 11 /\ (n % 100 = 11 \/ DecimalHas11(n \div 10))

\* "11" in str(v)
Has11(v) ==
  IF v.t = "num" THEN DecimalHas11(v.n) ELSE Contains(StrOf(v), "11")

\* re.findall(r'\d+\.?\d*', s)[0] for the strings that embed a number
EmbeddedNumber == ("11" :> 11) @@ ("11 m3" :> 11)

\* Python's order on the strings that reach a string comparison (code point
\* order: digits, then upper case, then lower case).
StrOrder ==
  <<"11", "11.0", "15", "EU", "European ports", "None", "non-EU",
    "non-European ports", "non_EU">>

StrRank(s) == CHOOSE i \in 1..Len(StrOrder) : StrOrder[i] = s

(***************************************************************************)
(* Rule model (src/models/schema.py)                                       *)
(***************************************************************************)
Band(name, min_value, max_value, band_type) ==
  [name |-> name, min_value |-> min_value, max_value |-> max_value,
   band_type |-> band_type]

Condition(field, operator, value) ==
  [field |-> field, operator |-> operator, value |-> value]

PricingRule(rate, flat_fee, percentage, min_charge, max_charge) ==
  [rate |-> rate, currency |-> "SEK", flat_fee |-> flat_fee,
   percentage |-> percentage, min_charge |-> min_charge,
   max_charge |-> max_charge]

TariffRule(vessel_type, component, charging_method, bands, conditions, pricing, description) ==
  [vessel_type |-> vessel_type, component |-> component,
   charging_method |-> charging_method, bands |-> bands,
   conditions |-> conditions, pricing |-> pricing,
   description |-> description]

\* GetRules with the vessel type filter left out.
GetRulesIgnoringVesselType(rules, vessel_type, component) ==
  IF Truthy(component)
  THEN SelectSeq(rules, LAMBDA r : Str(r.component) = component)
  ELSE rules

\* TariffDatabase.get_rules: each filter applies only when it is truthy.
GetRules(rules, vessel_type, component) ==
  LET byVessel ==
        IF Truthy(vessel_type)
        THEN SelectSeq(rules, LAMBDA r : Str(r.vessel_type) = vessel_type)
        ELSE rules
  IN IF Truthy(component)
     THEN SelectSeq(byVessel, LAMBDA r : Str(r.component) = component)
     ELSE byVessel

(***************************************************************************)
(* Condition evaluator (src/models/utils.py, evaluate_condition)           *)
(***************************************************************************)
FieldMapping ==
  ("arrival port" :> "arrival_origin") @@
  ("arrival_region" :> "arrival_origin") @@
  ("sludge_volume" :> "sludge_volume") @@
  ("sludge_volume_m3" :> "sludge_volume") @@
  ("quantity" :> "sludge_volume") @@
  ("calls_per_week" :> "calls_per_week") @@
  ("calls_per_week_on_service" :> "calls_per_week") @@
  ("certificates" :> "discount_certificate_for_waste") @@
  ("ESI score" :> "esi_score") @@
  ("fossil-free fuel percentage" :> "fossil_free_fuel_share")

EqualityOperators == {"eq", "=", "==", "equals", "from", "must"}

NotEqualOperators == {"ne", "!=", "<>", "not_equals"}

GreaterOperators == {"gt", ">", "greater_than", "more than"}

GreaterEqualOperators == {"gte", ">=", "greater_than_or_equal", "at least"}

LessOperators == {"lt", "<", "less_than", "less than"}

LessEqualOperators == {"lte", "<=", "less_than_or_equal", "at most"}

NumericOperators ==
  GreaterOperators \cup GreaterEqualOperators \cup LessOperators
    \cup LessEqualOperators

ArrivalFields == {"arrival port", "arrival_region"}

NonEuIndicators ==
  {"non-eu", "non_eu", "non-europe", "non_europe", "non-european",
   "non_european"}

TryConvertToNumber(val) ==
  IF IsNumber(val) THEN val
  ELSE IF IsStr(val) /\ val.s \in DOMAIN EmbeddedNumber
       THEN Flt(EmbeddedNumber[val.s])
       ELSE val

\* a < b once both sides are numbers or both are strings
ValueLess(a, b) ==
  IF IsNumber(a) /\ IsNumber(b) THEN a.n < b.n
  ELSE StrRank(a.s) < StrRank(b.s)

\* The equality-class branch for an arrival/region field (lines 94-115).
ArrivalEquals(field_value, target_value) ==
  LET target_lower == Lower(target_value.s)
      field_lower ==
        IF Truthy(field_value) THEN Lower(StrOf(field_value)) ELSE ""
  IN IF IsStr(target_value) /\ Contains(target_lower, "non")
     THEN \/ field_lower \in NonEuIndicators
          \/ (IsStr(field_value) /\ field_value.s \in {"non-EU", "non_EU"})
          \/ /\ IsStr(field_value)
             /\ Contains(field_lower, "non")
             /\ (Contains(field_lower, "eu") \/ Contains(field_lower, "europe"))
     ELSE IF /\ IsStr(target_value)
             /\ \/ Contains(target_lower, "eu")
                \/ Contains(target_lower, "europe")
                \/ Contains(target_lower, "european")
     THEN \/ field_lower \in {"eu", "europe", "european"}
          \/ (IsStr(field_value) /\ field_value.s = "EU")
     ELSE Lower(StrOf(field_value)) = Lower(StrOf(target_value))

\* The equality-class branch for the certificate field (lines 117-122).
CertificateEquals(field_value, target_value) ==
  IF /\ IsStr(target_value)
     /\ \/ Contains(Lower(target_value.s), "valid")
        \/ Contains(Lower(target_value.s), "has")
        \/ Contains(Lower(target_value.s), "true")
  THEN Truthy(field_value)
  ELSE Truthy(field_value) = Truthy(target_value)

\* Lines 47-53: the value under the aliased key, else under the raw field.
LookupFieldValue(condition, context) ==
  LET lookup_field ==
        IF condition.field \in DOMAIN FieldMapping
        THEN FieldMapping[condition.field]
        ELSE condition.field
      mapped == ContextGet(context, lookup_field)
  IN IF IsNone(mapped) THEN ContextGet(context, condition.field) ELSE mapped

\* Lines 58-144: the operator applied to the value found in the context.
EvaluateOperator(condition, raw) ==
  LET operator == Lower(condition.operator)
      numeric == operator \in NumericOperators
      fnum == TryConvertToNumber(raw)
      tnum == TryConvertToNumber(condition.value)
      bothNumbers == IsNumber(fnum) /\ IsNumber(tnum)
      field_value ==
        IF ~numeric THEN raw
        ELSE IF bothNumbers THEN fnum ELSE Str(StrOf(fnum))
      target_value ==
        IF ~numeric THEN condition.value
        ELSE IF bothNumbers THEN tnum ELSE Str(StrOf(tnum))
  IN CASE operator \in EqualityOperators ->
            IF condition.field \in ArrivalFields
            THEN ArrivalEquals(field_value, target_value)
            ELSE IF condition.field = "certificates"
            THEN CertificateEquals(field_value, target_value)
            ELSE ValueEq(field_value, target_value)
       [] operator \in NotEqualOperators ->
            ~ValueEq(field_value, target_value)
       [] operator \in GreaterOperators ->
            ValueLess(target_value, field_value)
       [] operator \in GreaterEqualOperators ->
            ~ValueLess(field_value, target_value)
       [] operator \in LessOperators ->
            ValueLess(field_value, target_value)
       [] operator \in LessEqualOperators ->
            ~ValueLess(target_value, field_value)
       [] operator \in {"in", "contains"} ->
            Contains(StrOf(target_value), StrOf(field_value))
       [] operator \in {"not_in", "not contains"} ->
            ~Contains(StrOf(target_value), StrOf(field_value))
       [] OTHER ->
            Lower(StrOf(field_value)) = Lower(StrOf(target_value))

\* EvaluateCondition without the early return of lines 55-56: None is
\* compared like any other value.
EvaluateConditionComparingNone(condition, context) ==
  EvaluateOperator(condition, LookupFieldValue(condition, context))

EvaluateCondition(condition, context) ==
  LET raw == LookupFieldValue(condition, context)
  IN IF IsNone(raw) THEN FALSE ELSE EvaluateOperator(condition, raw)

(***************************************************************************)
(* Rule applicability (src/models/utils.py, check_rule_applicable)         *)
(***************************************************************************)
InSeq(x, seq) == \E i \in 1..Len(seq) : seq[i] = x

\* CheckRuleApplicable with the normal case written with any() instead of
\* all().
CheckRuleApplicableAnyCondition(rule, context) ==
  IF rule.conditions = <<>> THEN TRUE
  ELSE
    LET arrival_port_conditions ==
          SelectSeq(rule.conditions,
                    LAMBDA cond : /\ cond.field \in ArrivalFields
                                  /\ Lower(cond.operator) \in {"from", "eq", "="})
        other_conditions ==
          SelectSeq(rule.conditions,
                    LAMBDA cond : ~InSeq(cond, arrival_port_conditions))
    IN IF Len(arrival_port_conditions) > 1
       THEN /\ \E i \in 1..Len(arrival_port_conditions) :
                 EvaluateCondition(arrival_port_conditions[i], context)
            /\ \A i \in 1..Len(other_conditions) :
                 EvaluateCondition(other_conditions[i], context)
       ELSE \E i \in 1..Len(rule.conditions) :
              EvaluateCondition(rule.conditions[i], context)

CheckRuleApplicable(rule, context) ==
  IF rule.conditions = <<>> THEN TRUE
  ELSE
    LET arrival_port_conditions ==
          SelectSeq(rule.conditions,
                    LAMBDA cond : /\ cond.field \in ArrivalFields
                                  /\ Lower(cond.operator) \in {"from", "eq", "="})
        other_conditions ==
          SelectSeq(rule.conditions,
                    LAMBDA cond : ~InSeq(cond, arrival_port_conditions))
    IN IF Len(arrival_port_conditions) > 1
       THEN /\ \E i \in 1..Len(arrival_port_conditions) :
                 EvaluateCondition(arrival_port_conditions[i], context)
            /\ \A i \in 1..Len(other_conditions) :
                 EvaluateCondition(other_conditions[i], context)
       ELSE \A i \in 1..Len(rule.conditions) :
              EvaluateCondition(rule.conditions[i], context)

(***************************************************************************)
(* Band matcher (src/models/utils.py, find_applicable_band)                *)
(***************************************************************************)
\* min_val <= value < max_val, a missing bound being -inf / +inf
InBand(band, value) ==
  /\ (IsNone(band.min_value) \/ band.min_value.n <= value)
  /\ (IsNone(band.max_value) \/ value < band.max_value.n)

\* FirstBandOfType with the scan keeping the last hit instead of returning
\* at the first.
LastBandOfType(bands, value, band_type) ==
  LET hits == {i \in 1..Len(bands) :
                 bands[i].band_type = band_type /\ InBand(bands[i], value)}
  IN IF hits = {} THEN <<>> ELSE <<bands[0 - MinOf({0 - i : i \in hits})]>>

\* One scan of the bands in declared order for one tag: the first hit.
FirstBandOfType(bands, value, band_type) ==
  LET hits == {i \in 1..Len(bands) :
                 bands[i].band_type = band_type /\ InBand(bands[i], value)}
  IN IF hits = {} THEN <<>> ELSE <<bands[MinOf(hits)]>>

\* FindApplicableBand with the alternative tags of line 224 tried in the
\* other order: "gt_range" before "standard".
FindApplicableBandRangeFirst(rule, value, band_type) ==
  LET direct == FirstBandOfType(rule.bands, value, band_type)
      standard == FirstBandOfType(rule.bands, value, "standard")
      gt_range == FirstBandOfType(rule.bands, value, "gt_range")
  IN IF direct # <<>> THEN direct
     ELSE IF band_type = "gt"
     THEN IF gt_range # <<>> THEN gt_range ELSE standard
     ELSE <<>>

FindApplicableBand(rule, value, band_type) ==
  LET direct == FirstBandOfType(rule.bands, value, band_type)
      standard == FirstBandOfType(rule.bands, value, "standard")
      gt_range == FirstBandOfType(rule.bands, value, "gt_range")
  IN IF direct # <<>> THEN direct
     ELSE IF band_type = "gt"
     THEN IF standard # <<>> THEN standard ELSE gt_range
     ELSE <<>>

(***************************************************************************)
(* Cost calculator (src/models/utils.py, calculate_component_cost)         *)
(***************************************************************************)
QuantityField ==
  ("per_gt" :> "gt") @@ ("per_m3" :> "volume_m3") @@
  ("per_ton" :> "tonnage") @@ ("per_metre_loa" :> "loa_metres") @@
  ("per_passenger" :> "passenger_count") @@ ("per_teu" :> "teu")

\* GetQuantityForChargingMethod with the final default returning 1, as for
\* the flat-fee methods, instead of 0.
GetQuantityDefaultingToOne(charging_method, context) ==
  IF charging_method \in DOMAIN QuantityField
  THEN ContextGetOr(context, QuantityField[charging_method], Num(0)).n
  ELSE 1

GetQuantityForChargingMethod(charging_method, context) ==
  IF charging_method \in DOMAIN QuantityField
  THEN ContextGetOr(context, QuantityField[charging_method], Num(0)).n
  ELSE IF charging_method \in {"flat_sek_per_call", "per_call"} THEN 1
  ELSE 0

\* Lines 264-265: quantity is None (NoneV) or the override.
ResolveQuantity(rule, context, quantity) ==
  IF IsNone(quantity)
  THEN GetQuantityForChargingMethod(rule.charging_method, context)
  ELSE quantity.n

\* BaseAmount with the rate tested for truth instead of against None: a
\* rate of 0 falls through to the flat fee.
BaseAmountTruthyRate(pricing, quantity) ==
  IF Truthy(pricing.rate) THEN pricing.rate.n * quantity
  ELSE IF ~IsNone(pricing.flat_fee) THEN pricing.flat_fee.n
  ELSE 0

\* Lines 268-273
BaseAmount(pricing, quantity) ==
  IF ~IsNone(pricing.rate) THEN pricing.rate.n * quantity
  ELSE IF ~IsNone(pricing.flat_fee) THEN pricing.flat_fee.n
  ELSE 0

\* Lines 276-279: cost * (1 + percentage / 100)
ApplyPercentage(pricing, cost) ==
  IF ~IsNone(pricing.percentage)
  THEN (cost * (100 + pricing.percentage.n)) \div 100
  ELSE cost

\* ClampCharge with the two constraints applied in the other order.
ClampChargeMaxFirst(pricing, cost) ==
  LET capped == IF ~IsNone(pricing.max_charge) /\ cost > pricing.max_charge.n
                THEN pricing.max_charge.n ELSE cost
  IN IF ~IsNone(pricing.min_charge) /\ capped < pricing.min_charge.n
     THEN pricing.min_charge.n ELSE capped

\* Lines 282-285: max(cost, min_charge), then min(cost, max_charge)
ClampCharge(pricing, cost) ==
  LET floored == IF ~IsNone(pricing.min_charge) /\ cost < pricing.min_charge.n
                 THEN pricing.min_charge.n ELSE cost
  IN IF ~IsNone(pricing.max_charge) /\ floored > pricing.max_charge.n
     THEN pricing.max_charge.n ELSE floored

\* The cost before the constraints of lines 282-285 are applied.
AmountBeforeClamp(rule, context, quantity) ==
  ApplyPercentage(rule.pricing,
                  BaseAmount(rule.pricing,
                             ResolveQuantity(rule, context, quantity)))

CalculateComponentCost(rule, context, quantity) ==
  ClampCharge(rule.pricing, AmountBeforeClamp(rule, context, quantity))

(***************************************************************************)
(* CalculationResult (src/core/calculator.py)                              *)
(***************************************************************************)
EmptyDict == [k \in {} |-> NoneV]

NewResult ==
  [components |-> [k \in {} |-> 0], total |-> 0, breakdown |-> <<>>,
   applicable_rules |-> <<>>]

\* AddComponent with the component's subtotal assigned instead of
\* accumulated: components[name] = cost.
AddComponentOverwriting(result, component_name, cost, rule, details) ==
  [components |->
     [k \in DOMAIN result.components \cup {component_name} |->
        IF k # component_name THEN result.components[k] ELSE cost],
   total |-> result.total + cost,
   breakdown |->
     Append(result.breakdown,
            [component |-> component_name, cost |-> cost,
             rule_description |->
               IF rule # <<>> THEN rule[1].description ELSE component_name,
             details |-> details]),
   applicable_rules |-> Append(result.applicable_rules, rule)]

\* rule is <<>> (None) or <<the rule>>
AddComponent(result, component_name, cost, rule, details) ==
  [components |->
     [k \in DOMAIN result.components \cup {component_name} |->
        IF k # component_name THEN result.components[k]
        ELSE IF k \in DOMAIN result.components
             THEN result.components[k] + cost
             ELSE cost],
   total |-> result.total + cost,
   breakdown |->
     Append(result.breakdown,
            [component |-> component_name, cost |-> cost,
             rule_description |->
               IF rule # <<>> THEN rule[1].description ELSE component_name,
             details |-> details]),
   applicable_rules |-> Append(result.applicable_rules, rule)]

(***************************************************************************)
(* TariffCalculator.calculate (src/core/calculator.py)                     *)
(***************************************************************************)
\* parameters.get(key, 0)
ParamOrZero(parameters, key) ==
  IF key \in DOMAIN parameters THEN parameters[key] ELSE Num(0)

\* The context dict of lines 154-171: every key is present; the quantity
\* keys default to 0, the others to None.
BuildContext(parameters) ==
  [k \in {"gt", "dwt", "volume_m3", "tonnage", "loa_metres",
          "passenger_count", "teu", "arrival_origin", "arrival_region",
          "sludge_volume", "calls_per_week", "esi_score", "use_ops",
          "is_inland_waterway", "discount_certificate_for_waste",
          "fossil_free_fuel_share"} |->
     IF k \in {"gt", "dwt", "volume_m3", "tonnage", "loa_metres",
               "passenger_count", "teu"}
     THEN ParamOrZero(parameters, k)
     ELSE IF k = "arrival_region" THEN ContextGet(parameters, "arrival_origin")
     ELSE ContextGet(parameters, k)]

DefaultPriority == 999

MergedRuleOffset == 100

\* RulePriority without the band-count branch of lines 179-181: every
\* infrastructure-dues rule gets the default priority.
RulePriorityIgnoringBands(rule) ==
  IF rule.component \in {"ship_generated_solid_waste",
                         "sludge_oily_bilge_water"}
  THEN LET arrival_conditions ==
             SelectSeq(rule.conditions, LAMBDA c : c.field \in ArrivalFields)
       IN IF Len(arrival_conditions) > 1
          THEN MergedRuleOffset + Len(rule.conditions)
          ELSE Len(rule.conditions)
  ELSE DefaultPriority

\* RulePriority without the offset of line 188: a rule with merged arrival
\* conditions is ranked by its number of conditions like any other.
RulePriorityWithoutOffset(rule) ==
  IF rule.component = "port_infrastructure_dues" /\ rule.bands # <<>>
  THEN Len(rule.bands)
  ELSE IF rule.component \in {"ship_generated_solid_waste",
                              "sludge_oily_bilge_water"}
  THEN Len(rule.conditions)
  ELSE DefaultPriority

RulePriority(rule) ==
  IF rule.component = "port_infrastructure_dues" /\ rule.bands # <<>>
  THEN Len(rule.bands)
  ELSE IF rule.component \in {"ship_generated_solid_waste",
                              "sludge_oily_bilge_water"}
  THEN LET arrival_conditions ==
             SelectSeq(rule.conditions, LAMBDA c : c.field \in ArrivalFields)
       IN IF Len(arrival_conditions) > 1
          THEN MergedRuleOffset + Len(rule.conditions)
          ELSE Len(rule.conditions)
  ELSE DefaultPriority

\* sorted(rules, key=rule_priority): stable, ascending
SortedByPriority(rules) ==
  LET n == Len(rules)
      before(i) == {j \in 1..n :
                      \/ RulePriority(rules[j]) < RulePriority(rules[i])
                      \/ /\ RulePriority(rules[j]) = RulePriority(rules[i])
                         /\ j < i}
  IN [k \in 1..n |->
        rules[CHOOSE i \in 1..n : Cardinality(before(i)) = k - 1]]

ExclusiveComponents == {"port_infrastructure_dues"}

FreeSludgeVolume == 11

EsiThreshold == 30

EsiDiscountPercent == 10

\* f"{band.get('min_value', '')}-{band.get('max_value', '')}": the bounds
\* are floats or None
FloatStr(v) == IF IsNone(v) THEN "None" ELSE Numeral(v.n) \o ".0"

BandLabel(band) == FloatStr(band.min_value) \o "-" \o FloatStr(band.max_value)

\* The band lookup of lines 224-235: <<>> when the rule has no bands or no
\* band matches.
BandForRule(rule, context) ==
  LET band_value ==
        IF rule.charging_method \in {"per_m3", "per_ton"}
        THEN ContextGetOr(context, "volume_m3",
                          ContextGetOr(context, "tonnage", Num(0))).n
        ELSE ContextGetOr(context, "gt", Num(0)).n
      standard == FindApplicableBand(rule, band_value, "standard")
  IN IF rule.bands = <<>> THEN <<>>
     ELSE IF standard # <<>> THEN standard
     ELSE FindApplicableBand(rule, band_value, "gt_range")

\* SkippedByExclusivity with the solid-waste branch not looking at the rate:
\* every per-GT solid-waste rule is skipped once the component was applied.
SkippedByExclusivityAnyRate(rule, applied_components) ==
  \/ /\ rule.component = "ship_generated_solid_waste"
     /\ rule.charging_method = "per_gt"
     /\ "ship_generated_solid_waste" \in applied_components
  \/ /\ rule.component = "sludge_oily_bilge_water"
     /\ rule.charging_method = "per_gt"
     /\ rule.component \in applied_components
  \/ /\ rule.component \in ExclusiveComponents
     /\ rule.component \in applied_components

\* Lines 202-221: the rule is skipped because its component was applied.
SkippedByExclusivity(rule, applied_components) ==
  \/ /\ rule.component = "ship_generated_solid_waste"
     /\ rule.charging_method = "per_gt"
     /\ Truthy(rule.pricing.rate)
     /\ rule.pricing.rate.n > 0
     /\ "ship_generated_solid_waste" \in applied_components
  \/ /\ rule.component = "sludge_oily_bilge_water"
     /\ rule.charging_method = "per_gt"
     /\ rule.component \in applied_components
  \/ /\ rule.component \in ExclusiveComponents
     /\ rule.component \in applied_components

\* Lines 237-241 and 245-247: the second and third look at the applied set
\* for infrastructure dues, after the band lookup.
SkippedAfterBand(rule, applied_components) ==
  \/ /\ rule.bands # <<>>
     /\ rule.component = "port_infrastructure_dues"
     /\ Len(rule.bands) > 1
     /\ rule.component \in applied_components
  \/ /\ rule.component \in ExclusiveComponents
     /\ rule.component = "port_infrastructure_dues"
     /\ rule.component \in applied_components

\* MarkApplied with the infrastructure-dues branch forgetting to record the
\* component.
MarkAppliedForgetsInfra(rule, band, applied_components) ==
  IF \/ /\ rule.component = "ship_generated_solid_waste"
        /\ rule.charging_method = "per_gt"
        /\ Truthy(rule.pricing.rate)
        /\ rule.pricing.rate.n > 0
     \/ /\ rule.component = "sludge_oily_bilge_water"
        /\ rule.charging_method = "per_gt"
  THEN applied_components \cup {rule.component}
  ELSE applied_components

\* Lines 243-258: the applied set after the rule passed the band lookup.
MarkApplied(rule, band, applied_components) ==
  IF rule.component \in ExclusiveComponents
  THEN IF band # <<>> \/ rule.bands = <<>>
       THEN applied_components \cup {rule.component}
       ELSE applied_components
  ELSE IF \/ /\ rule.component = "ship_generated_solid_waste"
             /\ rule.charging_method = "per_gt"
             /\ Truthy(rule.pricing.rate)
             /\ rule.pricing.rate.n > 0
          \/ /\ rule.component = "sludge_oily_bilge_water"
             /\ rule.charging_method = "per_gt"
  THEN applied_components \cup {rule.component}
  ELSE applied_components

IsPerVolumeSludge(rule) ==
  /\ rule.component = "sludge_oily_bilge_water"
  /\ rule.charging_method = "per_m3"

\* Line 264 compares context.get("sludge_volume", 0) with 11: the key is
\* always present, and None > 11 raises TypeError.
SludgeComparisonRaises(rule, context) ==
  IsPerVolumeSludge(rule)
    /\ IsNone(ContextGetOr(context, "sludge_volume", Num(0)))

\* Lines 265-270
HasExceedingCondition(rule) ==
  \E i \in 1..Len(rule.conditions) :
    LET cond == rule.conditions[i]
    IN /\ cond.field \in {"quantity", "sludge_volume"}
       /\ Contains(Lower(cond.operator), "more than")
       /\ Has11(cond.value)

\* Lines 261-273: None (NoneV) or the excess volume
QuantityOverride(rule, context) ==
  LET sludge == ContextGetOr(context, "sludge_volume", Num(0))
  IN IF /\ IsPerVolumeSludge(rule)
        /\ sludge.n > FreeSludgeVolume
        /\ HasExceedingCondition(rule)
     THEN Num(sludge.n - FreeSludgeVolume)
     ELSE NoneV

\* Lines 280-288
RuleDetails(rule, band) ==
  [k \in {"charging_method", "rate", "currency"}
        \cup (IF band # <<>> THEN {"band"} ELSE {})
        \cup (IF Truthy(rule.pricing.percentage) THEN {"percentage"} ELSE {})
     |->
     CASE k = "charging_method" -> Str(rule.charging_method)
       [] k = "rate" -> rule.pricing.rate
       [] k = "currency" -> Str(rule.pricing.currency)
       [] k = "band" -> Str(BandLabel(band[1]))
       [] OTHER -> rule.pricing.percentage]

\* One iteration of the loop of lines 197-295 on a call frame.
ProcessOneRule(frame, rule) ==
  LET context == BuildContext(frame.parameters)
      next == [frame EXCEPT !.idx = @ + 1]
      band == BandForRule(rule, context)
      applied == MarkApplied(rule, band, frame.applied_components)
      cost == CalculateComponentCost(rule, context,
                                     QuantityOverride(rule, context))
  IN IF ~CheckRuleApplicable(rule, context) THEN next
     ELSE IF SkippedByExclusivity(rule, frame.applied_components) THEN next
     ELSE IF rule.bands # <<>> /\ band = <<>> THEN next
     ELSE IF SkippedAfterBand(rule, frame.applied_components) THEN next
     ELSE IF SludgeComparisonRaises(rule, context)
     THEN [next EXCEPT !.pc = "raised", !.applied_components = applied]
     ELSE IF cost = 0 THEN [next EXCEPT !.applied_components = applied]
     ELSE [next EXCEPT
             !.applied_components = applied,
             !.result = AddComponent(frame.result, rule.component, cost,
                                     <<rule>>, RuleDetails(rule, band))]

EsiDetails ==
  [type |-> Str("ESI_discount"), percentage |-> Num(0 - EsiDiscountPercent),
   applied_to |-> Str("port_infrastructure_dues")]

\* ApplyEsiDiscount with the threshold test written > instead of >=.
ApplyEsiDiscountAboveOnly(result, context) ==
  LET esi_score == ContextGetOr(context, "esi_score", Num(0))
      port_dues_cost ==
        IF "port_infrastructure_dues" \in DOMAIN result.components
        THEN result.components["port_infrastructure_dues"]
        ELSE 0
  IN IF ~IsNone(esi_score) /\ esi_score.n > EsiThreshold /\ port_dues_cost > 0
     THEN AddComponent(result, "environmental_discounts",
                       (port_dues_cost * (0 - EsiDiscountPercent)) \div 100,
                       <<>>, EsiDetails)
     ELSE result

\* Lines 297-312
ApplyEsiDiscount(result, context) ==
  LET esi_score == ContextGetOr(context, "esi_score", Num(0))
      port_dues_cost ==
        IF "port_infrastructure_dues" \in DOMAIN result.components
        THEN result.components["port_infrastructure_dues"]
        ELSE 0
  IN IF ~IsNone(esi_score) /\ esi_score.n >= EsiThreshold /\ port_dues_cost > 0
     THEN AddComponent(result, "environmental_discounts",
                       (port_dues_cost * (0 - EsiDiscountPercent)) \div 100,
                       <<>>, EsiDetails)
     ELSE result

\* A call frame before calculate() is entered. pc, idx and the locals of
\* calculate(); earlier records that the caller of this frame has called
\* calculate() before.
IdleCall ==
  [pc |-> "idle", parameters |-> EmptyDict, sorted_rules |-> <<>>,
   idx |-> 1, applied_components |-> {}, result |-> NewResult,
   earlier |-> FALSE]

\* BeginCall with the accumulator and the applied set kept from the caller's
\* previous call instead of created afresh.
BeginCallKeepingState(prev, parameters, rules) ==
  LET vessel_type == ContextGet(parameters, "vessel_type")
  IN IF ~Truthy(vessel_type)
     THEN [prev EXCEPT !.pc = "done", !.parameters = parameters,
                       !.earlier = prev.pc # "idle"]
     ELSE [prev EXCEPT
             !.pc = "loop", !.parameters = parameters, !.idx = 1,
             !.earlier = prev.pc # "idle",
             !.sorted_rules =
               SortedByPriority(GetRules(rules, vessel_type, NoneV))]

\* BeginCall without the early return of lines 147-148.
BeginCallWithoutVesselCheck(prev, parameters, rules) ==
  [IdleCall EXCEPT
     !.pc = "loop", !.parameters = parameters,
     !.earlier = prev.pc # "idle",
     !.sorted_rules =
       SortedByPriority(
         GetRules(rules, ContextGet(parameters, "vessel_type"), NoneV))]

\* Lines 143-194: the frame when the loop is about to start, or the frame
\* that returns at once when there is no vessel type.
BeginCall(prev, parameters, rules) ==
  LET vessel_type == ContextGet(parameters, "vessel_type")
  IN IF ~Truthy(vessel_type)
     THEN [IdleCall EXCEPT !.pc = "done", !.parameters = parameters,
                           !.earlier = prev.pc # "idle"]
     ELSE [IdleCall EXCEPT
             !.pc = "loop", !.parameters = parameters,
             !.earlier = prev.pc # "idle",
             !.sorted_rules =
               SortedByPriority(GetRules(rules, vessel_type, NoneV))]

(***************************************************************************)
(* Rules and parameters the model draws from                               *)
(***************************************************************************)
MaxRules == 2

NoPricing == PricingRule(NoneV, NoneV, NoneV, NoneV, NoneV)

RatePricing(rate) == [NoPricing EXCEPT !.rate = Num(rate)]

FlatPricing(flat_fee) == [NoPricing EXCEPT !.flat_fee = Num(flat_fee)]

\* tests/test_fixtures.py, example 1: bands tagged "gt", 12.5 SEK per GT
InfraGtBands ==
  TariffRule("tankers", "port_infrastructure_dues", "per_gt",
             <<Band("GT_0_500", Num(0), Num(500), "gt"),
               Band("GT_500_1000", Num(500), Num(1000), "gt"),
               Band("GT_1000_plus", Num(1000), NoneV, "gt")>>,
             <<Condition("arrival_origin", "eq", Str("EU"))>>,
             RatePricing(1250),
             "Port infrastructure dues for tankers arriving from EU")

\* tests/unit/test_models_utils.py: bands tagged "gt_range", 3.04 SEK per GT
InfraRanges ==
  TariffRule("tankers", "port_infrastructure_dues", "per_gt",
             <<Band("0-2300", Num(0), Num(2300), "gt_range"),
               Band("2301-3300", Num(2301), Num(3300), "gt_range"),
               Band("3301-15000", Num(3301), Num(15000), "gt_range")>>,
             <<>>, RatePricing(304), "Banded dues")

\* spec scenario 3: unconditional, bandless, 10 SEK per GT
InfraFlatRate ==
  TariffRule("tankers", "port_infrastructure_dues", "per_gt", <<>>, <<>>,
             RatePricing(1000), "Port dues")

\* one band tagged "standard", European arrivals only, 5.75 SEK per GT
InfraStandard ==
  TariffRule("tankers", "port_infrastructure_dues", "per_gt",
             <<Band(">3300", Num(3301), NoneV, "standard")>>,
             <<Condition("arrival port", "from", Str("European ports"))>>,
             RatePricing(575), "Dues for European arrivals")

\* spec scenario 4 with each greater-than spelling: 150 SEK per m3 above 11
SludgeExcess(operator) ==
  TariffRule("tankers", "sludge_oily_bilge_water", "per_m3", <<>>,
             <<Condition("sludge_volume", operator, Num(11))>>,
             RatePricing(15000), "Sludge above 11 m3, " \o operator)

\* a per-volume sludge rule with no condition at all
SludgeAny ==
  TariffRule("tankers", "sludge_oily_bilge_water", "per_m3", <<>>, <<>>,
             RatePricing(15000), "Sludge per m3")

\* a discount rule of the database itself: 500 SEK off per call
EnvFlat ==
  TariffRule("tankers", "environmental_discounts", "flat_sek_per_call",
             <<>>, <<>>, FlatPricing(0 - 50000), "Environmental rebate")

Catalogue ==
  {InfraGtBands, InfraRanges, InfraFlatRate, InfraStandard, SludgeAny,
   EnvFlat} \cup {SludgeExcess(op) : op \in GreaterOperators}

\* The rule lists of at most MaxRules rules of a catalogue, in any order.
Databases(catalogue) ==
  UNION {[1..n -> catalogue] : n \in 0..MaxRules}

\* A key that is absent, or present with one of the values.
Optional(key, values) == {EmptyDict} \cup {key :> v : v \in values}

ParamSpace ==
  {v @@ g @@ a @@ sl @@ e :
     v \in Optional("vessel_type", {Str(""), Str("tankers")}),
     g \in Optional("gt", {Num(5000)}),
     a \in Optional("arrival_origin", {Str("EU")}),
     sl \in Optional("sludge_volume", {Num(11), Num(15)}),
     e \in Optional("esi_score", {Num(29), Num(30)})}

(***************************************************************************)
(* The calculator as a state machine: database is the calculator's only    *)
(* attribute; calls[i] is the frame of one calculate() invocation.         *)
(***************************************************************************)
\* Begin with the rule list sorted in place in the database (rules.sort on
\* self.database.rules) instead of through sorted() on a filtered copy.
BeginSortingInPlace(i, parameters) ==
  /\ calls[i].pc \in {"idle", "done", "raised"}
  /\ calls' = [calls EXCEPT ![i] = BeginCall(calls[i], parameters, database)]
  /\ database' = SortedByPriority(database)
  /\ UNCHANGED <<band_query, cond_query, eval_query, cost_query,
                 rules_query, load_query, workflow>>

\* calculate() is entered: lines 143-194.
Begin(i, parameters) ==
  /\ calls[i].pc \in {"idle", "done", "raised"}
  /\ calls' = [calls EXCEPT ![i] = BeginCall(calls[i], parameters, database)]
  /\ UNCHANGED <<database, band_query, cond_query, eval_query, cost_query,
                 rules_query, load_query, workflow>>

\* ProcessRule with applied_components kept on the calculator and so shared
\* by the invocations in progress, instead of local to each.
ProcessRuleSharingApplied(i) ==
  /\ calls[i].pc = "loop"
  /\ calls[i].idx <= Len(calls[i].sorted_rules)
  /\ LET shared == UNION {calls[j].applied_components : j \in DOMAIN calls}
         frame == [calls[i] EXCEPT !.applied_components = shared]
     IN calls' = [calls EXCEPT
                    ![i] = ProcessOneRule(frame,
                                          frame.sorted_rules[frame.idx])]
  /\ UNCHANGED <<database, band_query, cond_query, eval_query, cost_query,
                 rules_query, load_query, workflow>>

\* One iteration of the loop: lines 197-295.
ProcessRule(i) ==
  /\ calls[i].pc = "loop"
  /\ calls[i].idx <= Len(calls[i].sorted_rules)
  /\ calls' = [calls EXCEPT
                 ![i] = ProcessOneRule(calls[i],
                                       calls[i].sorted_rules[calls[i].idx])]
  /\ UNCHANGED <<database, band_query, cond_query, eval_query, cost_query,
                 rules_query, load_query, workflow>>

\* The loop is over: the automatic discount and the return, lines 297-314.
Finish(i) ==
  /\ calls[i].pc = "loop"
  /\ calls[i].idx > Len(calls[i].sorted_rules)
  /\ calls' = [calls EXCEPT
                 ![i] = [calls[i] EXCEPT
                           !.pc = "done",
                           !.result =
                             ApplyEsiDiscount(calls[i].result,
                               BuildContext(calls[i].parameters))]]
  /\ UNCHANGED <<database, band_query, cond_query, eval_query, cost_query,
                 rules_query, load_query, workflow>>

NoQuery == [pc |-> "unused"]

Init ==
  /\ workflow = NoQuery
  /\ database \in Databases(Catalogue)
  /\ calls = [i \in {1} |-> IdleCall]
  /\ band_query = NoQuery
  /\ cond_query = NoQuery
  /\ eval_query = NoQuery
  /\ cost_query = NoQuery
  /\ rules_query = NoQuery
  /\ load_query = NoQuery

\* Spec follows one invocation per frame, from its entry to its return.
Call ==
  \E i \in DOMAIN calls : \E parameters \in ParamSpace :
    calls[i].pc = "idle" /\ Begin(i, parameters)

Step == \E i \in DOMAIN calls : ProcessRule(i)

Return == \E i \in DOMAIN calls : Finish(i)

Next == Call \/ Step \/ Return

Spec == Init /\ [][Next]_vars

(***************************************************************************)
(* Two callers of one calculator, each calling calculate() again and       *)
(* again, their steps interleaved.                                         *)
(***************************************************************************)
PairCatalogue == {InfraRanges, InfraFlatRate, SludgeExcess("more than")}

PairParams ==
  {EmptyDict} \cup
  {("vessel_type" :> Str("tankers")) @@ ("gt" :> Num(5000)) @@ extra :
     extra \in {EmptyDict, "esi_score" :> Num(30),
                "sludge_volume" :> Num(15)}}

InitCalls ==
  /\ workflow = NoQuery
  /\ database \in Databases(PairCatalogue)
  /\ calls = [i \in {1, 2} |-> IdleCall]
  /\ band_query = NoQuery
  /\ cond_query = NoQuery
  /\ eval_query = NoQuery
  /\ cost_query = NoQuery
  /\ rules_query = NoQuery
  /\ load_query = NoQuery

CallAgain ==
  \E i \in DOMAIN calls : \E parameters \in PairParams : Begin(i, parameters)

NextCalls == CallAgain \/ Step \/ Return

SpecCalls == InitCalls /\ [][NextCalls]_vars

(***************************************************************************)
(* find_applicable_band on its own: a rule, a value and a tag are drawn,   *)
(* then the function is applied.                                           *)
(***************************************************************************)
MaxBands == 2

BandUniverse ==
  {Band("0-2300", Num(0), Num(2300), "gt_range"),
   Band("2301-3300", Num(2301), Num(3300), "gt_range"),
   Band("0-3300", Num(0), Num(3300), "gt_range"),
   Band(">15000", Num(15001), NoneV, "gt_range"),
   Band("GT_0_2300", Num(0), Num(2300), "gt"),
   Band("up to 2400", NoneV, Num(2400), "standard"),
   Band("2300 and more", Num(2300), NoneV, "standard")}

BandValues == {0, 2299, 2300, 2500, 3300, 20000}

BandTags == {"gt", "gt_range", "standard", "calls_per_week"}

BandedRule(bands) ==
  TariffRule("tankers", "port_infrastructure_dues", "per_gt", bands, <<>>,
             RatePricing(304), "Banded dues")

InitBand ==
  /\ workflow = NoQuery
  /\ database = <<>>
  /\ calls = [i \in {} |-> IdleCall]
  /\ cond_query = NoQuery
  /\ eval_query = NoQuery
  /\ cost_query = NoQuery
  /\ rules_query = NoQuery
  /\ load_query = NoQuery
  /\ \E n \in 0..MaxBands : \E bands \in [1..n -> BandUniverse] :
       \E value \in BandValues : \E band_type \in BandTags :
         band_query = [pc |-> "ready", rule |-> BandedRule(bands),
                       value |-> value, band_type |-> band_type,
                       result |-> <<>>]

FindBand ==
  /\ band_query.pc = "ready"
  /\ band_query' =
       [band_query EXCEPT
          !.pc = "returned",
          !.result = FindApplicableBand(band_query.rule, band_query.value,
                                        band_query.band_type)]
  /\ UNCHANGED <<database, calls, cond_query, eval_query, cost_query,
                 rules_query, load_query, workflow>>

NextBand == FindBand

SpecBand == InitBand /\ [][NextBand]_vars

(***************************************************************************)
(* check_rule_applicable on its own: the conditions of a rule and a        *)
(* context are drawn, then the function is applied.                        *)
(***************************************************************************)
MaxConds == 3

ConditionUniverse ==
  {Condition("arrival port", op, Str(target)) :
     op \in EqualityOperators,
     target \in {"European ports", "non-European ports"}}
    \cup {Condition("sludge_volume", "more than", Num(11))}

ContextSpace ==
  {a @@ sl :
     a \in Optional("arrival_origin", {Str("EU"), Str("non-EU")}),
     sl \in {"sludge_volume" :> Num(5), "sludge_volume" :> Num(15)}}

ConditionedRule(conditions) ==
  TariffRule("tankers", "ship_generated_solid_waste", "per_gt", <<>>,
             conditions, RatePricing(13), "Solid waste")

InitCond ==
  /\ workflow = NoQuery
  /\ database = <<>>
  /\ calls = [i \in {} |-> IdleCall]
  /\ band_query = NoQuery
  /\ eval_query = NoQuery
  /\ cost_query = NoQuery
  /\ rules_query = NoQuery
  /\ load_query = NoQuery
  /\ \E n \in 0..MaxConds : \E conditions \in [1..n -> ConditionUniverse] :
       \E context \in ContextSpace :
         cond_query = [pc |-> "ready", rule |-> ConditionedRule(conditions),
                       context |-> context, result |-> FALSE]

CheckApplicable ==
  /\ cond_query.pc = "ready"
  /\ cond_query' =
       [cond_query EXCEPT
          !.pc = "returned",
          !.result = CheckRuleApplicable(cond_query.rule, cond_query.context)]
  /\ UNCHANGED <<database, calls, band_query, eval_query, cost_query,
                 rules_query, load_query, workflow>>

NextCond == CheckApplicable

SpecCond == InitCond /\ [][NextCond]_vars

(***************************************************************************)
(* evaluate_condition on its own: a condition and a context are drawn,     *)
(* then the function is applied.                                           *)
(***************************************************************************)
ArrivalAuthorings == {"arrival port", "arrival_region", "arrival_origin"}

EvalConditions ==
  {Condition(field, op, Str(target)) :
     field \in ArrivalAuthorings, op \in EqualityOperators,
     target \in {"European ports", "non-European ports", "EU", "non-EU"}}
    \cup
  {Condition(field, op, target) :
     field \in {"sludge_volume", "quantity"},
     op \in {"gt", "more than", "lte", "at least", "<", "ne", "in", "not_in",
             "between"},
     target \in {Num(11), Str("11")}}
    \cup
  {Condition("certificates", op, Str(target)) :
     op \in {"eq", "must"}, target \in {"valid certificate", "True"}}

\* A key that is absent, present with None, or present with a value.
Nullable(key, values) == Optional(key, {NoneV} \cup values)

EvalContexts ==
  {a @@ sl @@ q @@ c :
     a \in Nullable("arrival_origin", {Str("EU"), Str("non_EU"), Str("non-EU")}),
     sl \in Nullable("sludge_volume", {Num(11), Num(15)}),
     q \in Optional("quantity", {Num(15)}),
     c \in Nullable("discount_certificate_for_waste",
                    {Bool(TRUE), Bool(FALSE)})}

InitEval ==
  /\ workflow = NoQuery
  /\ database = <<>>
  /\ calls = [i \in {} |-> IdleCall]
  /\ band_query = NoQuery
  /\ cond_query = NoQuery
  /\ cost_query = NoQuery
  /\ rules_query = NoQuery
  /\ load_query = NoQuery
  /\ \E condition \in EvalConditions : \E context \in EvalContexts :
       eval_query = [pc |-> "ready", condition |-> condition,
                     context |-> context, result |-> FALSE]

Evaluate ==
  /\ eval_query.pc = "ready"
  /\ eval_query' =
       [eval_query EXCEPT
          !.pc = "returned",
          !.result = EvaluateCondition(eval_query.condition,
                                       eval_query.context)]
  /\ UNCHANGED <<database, calls, band_query, cond_query, cost_query,
                 rules_query, load_query, workflow>>

NextEval == Evaluate

SpecEval == InitEval /\ [][NextEval]_vars

(***************************************************************************)
(* calculate_component_cost on its own: a rule, a context and a quantity  *)
(* override are drawn, then the function is applied. quantity and amount  *)
(* are the function's locals after line 265 and after line 279.           *)
(***************************************************************************)
ChargingMethods ==
  {"per_gt", "per_m3", "per_ton", "per_metre_loa", "flat_sek_per_call",
   "per_24h_period", "per_passenger", "per_teu", "per_call", "percentage"}

FullCostContext ==
  ("gt" :> Num(5000)) @@ ("volume_m3" :> Num(20)) @@ ("tonnage" :> Num(300)) @@
  ("loa_metres" :> Num(180)) @@ ("passenger_count" :> Num(1200)) @@
  ("teu" :> Num(40))

\* Every quantity key present, none, or all but one.
CostContexts ==
  {FullCostContext, EmptyDict} \cup
  {[k \in DOMAIN FullCostContext \ {missing} |-> FullCostContext[k]] :
     missing \in DOMAIN FullCostContext}

CostPricings ==
  {PricingRule(rate, flat_fee, percentage, min_charge, max_charge) :
     rate \in {NoneV, Num(0), Num(1000)},
     flat_fee \in {NoneV, Num(50000)},
     percentage \in {NoneV, Num(0 - 10), Num(0), Num(25)},
     min_charge \in {NoneV, Num(30000)},
     max_charge \in {NoneV, Num(25000), Num(4000000)}}

QuantityOverrides == {NoneV, Num(0), Num(4)}

PricedRule(charging_method, pricing) ==
  TariffRule("tankers", "fresh_water", charging_method, <<>>, <<>>, pricing,
             "Priced rule")

InitCost ==
  /\ workflow = NoQuery
  /\ database = <<>>
  /\ calls = [i \in {} |-> IdleCall]
  /\ band_query = NoQuery
  /\ cond_query = NoQuery
  /\ eval_query = NoQuery
  /\ rules_query = NoQuery
  /\ load_query = NoQuery
  /\ \E charging_method \in ChargingMethods : \E pricing \in CostPricings :
       \E context \in CostContexts : \E override \in QuantityOverrides :
         cost_query = [pc |-> "ready",
                       rule |-> PricedRule(charging_method, pricing),
                       context |-> context, override |-> override,
                       quantity |-> 0, amount |-> 0, result |-> 0]

ComputeCost ==
  /\ cost_query.pc = "ready"
  /\ cost_query' =
       [cost_query EXCEPT
          !.pc = "returned",
          !.quantity = ResolveQuantity(cost_query.rule, cost_query.context,
                                       cost_query.override),
          !.amount = AmountBeforeClamp(cost_query.rule, cost_query.context,
                                       cost_query.override),
          !.result = CalculateComponentCost(cost_query.rule,
                                            cost_query.context,
                                            cost_query.override)]
  /\ UNCHANGED <<database, calls, band_query, cond_query, eval_query,
                 rules_query, load_query, workflow>>

NextCost == ComputeCost

SpecCost == InitCost /\ [][NextCost]_vars

(***************************************************************************)
(* A database of rules for several vessel types: get_rules is queried on   *)
(* its own and calculate() is called on the same database.                 *)
(***************************************************************************)
\* An unconditional, bandless rule of a vessel type and a component: dues
\* per GT, fresh water as a flat fee per call.
FleetRule(vessel_type, component) ==
  IF component = "port_infrastructure_dues"
  THEN TariffRule(vessel_type, component, "per_gt", <<>>, <<>>,
                  RatePricing(IF vessel_type = "tankers" THEN 1000 ELSE 800),
                  "Port dues, " \o vessel_type)
  ELSE TariffRule(vessel_type, component, "flat_sek_per_call", <<>>, <<>>,
                  FlatPricing(IF vessel_type = "tankers" THEN 50000 ELSE 40000),
                  "Fresh water, " \o vessel_type)

FleetCatalogue ==
  {FleetRule(vessel_type, component) :
     vessel_type \in {"tankers", "container_vessels"},
     component \in {"port_infrastructure_dues", "fresh_water"}}

FleetParams ==
  {v @@ ("gt" :> Num(5000)) :
     v \in Optional("vessel_type", {Str("tankers"), Str("container_vessels"),
                                    Str("yachts")})}

VesselFilters ==
  {NoneV, Str("tankers"), Str("container_vessels"), Str("yachts")}

ComponentFilters == {NoneV, Str("port_infrastructure_dues"), Str("fresh_water")}

InitFleet ==
  /\ workflow = NoQuery
  /\ database \in Databases(FleetCatalogue)
  /\ calls = [i \in {1} |-> IdleCall]
  /\ band_query = NoQuery
  /\ cond_query = NoQuery
  /\ eval_query = NoQuery
  /\ cost_query = NoQuery
  /\ load_query = NoQuery
  /\ \E vessel_type \in VesselFilters : \E component \in ComponentFilters :
       rules_query = [pc |-> "ready", vessel_type |-> vessel_type,
                      component |-> component, result |-> <<>>]

QueryRules ==
  /\ rules_query.pc = "ready"
  /\ rules_query' =
       [rules_query EXCEPT
          !.pc = "returned",
          !.result = GetRules(database, rules_query.vessel_type,
                              rules_query.component)]
  /\ UNCHANGED <<database, calls, band_query, cond_query, eval_query,
                 cost_query, load_query, workflow>>

CallFleet ==
  \E i \in DOMAIN calls : \E parameters \in FleetParams :
    calls[i].pc = "idle" /\ Begin(i, parameters)

NextFleet == QueryRules \/ CallFleet \/ Step \/ Return

SpecFleet == InitFleet /\ [][NextFleet]_vars

(***************************************************************************)
(* TariffLoader.load_from_json (src/core/dataset_loader.py): the records   *)
(* of the file's "rules" list are validated one by one. A record is        *)
(* [kind, fields]: kind is "object" for a JSON object, whose members are   *)
(* fields, and "string" for a JSON string in the place of a rule. pricing, *)
(* when present, is an object and bands and conditions are lists of        *)
(* objects; every other member is a scalar.                                *)
(***************************************************************************)
MaxRecords == 3

VesselTypes ==
  {"tankers", "container_vessels", "roro_vessels", "car_carriers",
   "ropax_passenger_vessels", "cruise_vessels", "break_bulk_lolo_vessels",
   "inland_waterways", "yachts", "archipelago_traffic", "harbour_vessels",
   "other_vessels"}

TariffComponents ==
  {"port_infrastructure_dues", "ship_generated_solid_waste",
   "sludge_oily_bilge_water", "scrubber_waste", "environmental_discounts",
   "fresh_water", "rinsing_water", "lay_up_dues", "connecting_to_ops",
   "introductory_discount", "frequency_discount", "isps_fees",
   "passenger_dues", "black_grey_water", "security_patrol_isps_due",
   "passing_vessel_dues", "bunkering_crew_change_provisioning_discount",
   "repairs_laying_up_tank_cleaning_fees", "service_vessels_naval_ship_fees",
   "port_dues_for_cargo"}

\* An enum member: the string is one of the enum's values.
ValidEnum(fields, key, values) ==
  key \in DOMAIN fields /\ IsStr(fields[key]) /\ fields[key].s \in values

\* A required str member.
ValidStr(fields, key) == key \in DOMAIN fields /\ IsStr(fields[key])

\* An Optional[float] member: absent, null or a number (the strings of the
\* model's files are not numerals).
ValidOptionalFloat(fields, key) ==
  key \in DOMAIN fields => (IsNone(fields[key]) \/ fields[key].t = "num")

ValidBand(fields) ==
  /\ ValidStr(fields, "name")
  /\ ValidStr(fields, "band_type")
  /\ ValidOptionalFloat(fields, "min_value")
  /\ ValidOptionalFloat(fields, "max_value")

ValidCondition(fields) ==
  /\ ValidStr(fields, "field")
  /\ ValidStr(fields, "operator")
  /\ "value" \in DOMAIN fields
  /\ fields["value"].t \in {"str", "num"}

ValidPricing(fields) ==
  /\ \A key \in {"rate", "flat_fee", "percentage", "min_charge", "max_charge"} :
       ValidOptionalFloat(fields, key)
  /\ "currency" \in DOMAIN fields => IsStr(fields["currency"])

\* TariffRule(**rule_dict) succeeds: ** needs a mapping, and the model
\* validates each member.
ValidRecord(record) ==
  /\ record.kind = "object"
  /\ ValidEnum(record.fields, "vessel_type", VesselTypes)
  /\ ValidEnum(record.fields, "component", TariffComponents)
  /\ ValidEnum(record.fields, "charging_method", ChargingMethods)
  /\ "pricing" \in DOMAIN record.fields
  /\ ValidPricing(record.fields["pricing"])
  /\ "bands" \in DOMAIN record.fields =>
       \A k \in 1..Len(record.fields["bands"]) :
         ValidBand(record.fields["bands"][k])
  /\ "conditions" \in DOMAIN record.fields =>
       \A k \in 1..Len(record.fields["conditions"]) :
         ValidCondition(record.fields["conditions"][k])
  /\ "description" \in DOMAIN record.fields =>
       (IsNone(record.fields["description"])
          \/ IsStr(record.fields["description"]))

ParseBand(fields) ==
  Band(fields["name"].s, ContextGet(fields, "min_value"),
       ContextGet(fields, "max_value"), fields["band_type"].s)

ParseCondition(fields) ==
  Condition(fields["field"].s, fields["operator"].s, fields["value"])

ParsePricing(fields) ==
  PricingRule(ContextGet(fields, "rate"), ContextGet(fields, "flat_fee"),
              ContextGet(fields, "percentage"),
              ContextGet(fields, "min_charge"),
              ContextGet(fields, "max_charge"))

\* The rule built from a valid record: members the model does not declare
\* are ignored, bands and conditions default to the empty list. The rule
\* model keeps descriptions as strings: a missing one is written "".
ParseRule(record) ==
  LET fields == record.fields
      bands == IF "bands" \in DOMAIN fields THEN fields["bands"] ELSE <<>>
      conditions ==
        IF "conditions" \in DOMAIN fields THEN fields["conditions"] ELSE <<>>
  IN TariffRule(fields["vessel_type"].s, fields["component"].s,
                fields["charging_method"].s,
                [k \in 1..Len(bands) |-> ParseBand(bands[k])],
                [k \in 1..Len(conditions) |-> ParseCondition(conditions[k])],
                ParsePricing(fields["pricing"]),
                IF "description" \in DOMAIN fields /\ IsStr(fields["description"])
                THEN fields["description"].s ELSE "")

JsonObject(fields) == [kind |-> "object", fields |-> fields]

\* The example record of TariffRule's schema.
GoodBandedRecord ==
  JsonObject(
    ("vessel_type" :> Str("tankers")) @@
    ("component" :> Str("port_infrastructure_dues")) @@
    ("charging_method" :> Str("per_gt")) @@
    ("bands" :> <<("name" :> Str("GT_0_500")) @@ ("min_value" :> Num(0)) @@
                  ("max_value" :> Num(500)) @@ ("band_type" :> Str("gt")),
                  ("name" :> Str("GT_500_plus")) @@ ("min_value" :> Num(500)) @@
                  ("max_value" :> NoneV) @@ ("band_type" :> Str("gt"))>>) @@
    ("conditions" :> <<("field" :> Str("arrival_origin")) @@
                       ("operator" :> Str("eq")) @@ ("value" :> Str("EU"))>>) @@
    ("pricing" :> (("rate" :> Num(1250)) @@ ("currency" :> Str("SEK")))) @@
    ("description" :> Str("Port infrastructure dues for tankers")))

\* A record with only the required members and one the model ignores.
GoodPlainRecord ==
  JsonObject(
    ("vessel_type" :> Str("yachts")) @@
    ("component" :> Str("fresh_water")) @@
    ("charging_method" :> Str("flat_sek_per_call")) @@
    ("pricing" :> ("flat_fee" :> Num(50000))) @@
    ("description" :> Str("Fresh water")) @@
    ("source_page" :> Num(12)))

\* Malformed records: an unknown vessel type, no pricing, a band without
\* band_type, a rate that is no number, a string in the place of a rule.
UnknownVesselRecord ==
  JsonObject(("vessel_type" :> Str("submarines")) @@ GoodPlainRecord.fields)

NoPricingRecord ==
  JsonObject([k \in DOMAIN GoodPlainRecord.fields \ {"pricing"} |->
                GoodPlainRecord.fields[k]])

BadBandRecord ==
  JsonObject(("bands" :> <<("name" :> Str("GT_0_500")) @@
                           ("min_value" :> Num(0))>>) @@
             GoodPlainRecord.fields)

BadRateRecord ==
  JsonObject(("pricing" :> ("rate" :> Str("on request"))) @@
             GoodPlainRecord.fields)

StringRecord == [kind |-> "string", fields |-> EmptyDict]

RecordUniverse ==
  {GoodBandedRecord, GoodPlainRecord, UnknownVesselRecord, NoPricingRecord,
   BadBandRecord, BadRateRecord, StringRecord}

InitLoad ==
  /\ workflow = NoQuery
  /\ database = <<>>
  /\ calls = [i \in {} |-> IdleCall]
  /\ band_query = NoQuery
  /\ cond_query = NoQuery
  /\ eval_query = NoQuery
  /\ cost_query = NoQuery
  /\ rules_query = NoQuery
  /\ \E n \in 0..MaxRecords : \E records \in [1..n -> RecordUniverse] :
       load_query = [pc |-> "loop", records |-> records, idx |-> 1,
                     rules |-> <<>>, warnings |-> 0]

\* LoadRecord without the try/except around the validation: the first
\* failure leaves load_from_json.
LoadRecordAbortingOnFailure ==
  /\ load_query.pc = "loop"
  /\ load_query.idx <= Len(load_query.records)
  /\ LET record == load_query.records[load_query.idx]
     IN load_query' =
          IF ValidRecord(record)
          THEN [load_query EXCEPT
                  !.idx = @ + 1, !.rules = Append(@, ParseRule(record))]
          ELSE [load_query EXCEPT !.pc = "raised"]
  /\ UNCHANGED <<database, calls, band_query, cond_query, eval_query,
                 cost_query, rules_query, workflow>>

\* One iteration of the loop of lines 44-50.
LoadRecord ==
  /\ load_query.pc = "loop"
  /\ load_query.idx <= Len(load_query.records)
  /\ LET record == load_query.records[load_query.idx]
     IN load_query' =
          IF ValidRecord(record)
          THEN [load_query EXCEPT
                  !.idx = @ + 1, !.rules = Append(@, ParseRule(record))]
          ELSE [load_query EXCEPT !.idx = @ + 1, !.warnings = @ + 1]
  /\ UNCHANGED <<database, calls, band_query, cond_query, eval_query,
                 cost_query, rules_query, workflow>>

\* Lines 52-60: the database is built from the rules kept and returned.
LoadReturn ==
  /\ load_query.pc = "loop"
  /\ load_query.idx > Len(load_query.records)
  /\ load_query' = [load_query EXCEPT !.pc = "returned"]
  /\ database' = load_query.rules
  /\ UNCHANGED <<calls, band_query, cond_query, eval_query, cost_query,
                 rules_query, workflow>>

NextLoad == LoadRecord \/ LoadReturn

SpecLoad == InitLoad /\ [][NextLoad]_vars

\* load_from_json from its entry: the path may name no file. exists is
\* json_path.exists() at line 34.
InitOpen ==
  /\ workflow = NoQuery
  /\ database = <<>>
  /\ calls = [i \in {} |-> IdleCall]
  /\ band_query = NoQuery
  /\ cond_query = NoQuery
  /\ eval_query = NoQuery
  /\ cost_query = NoQuery
  /\ rules_query = NoQuery
  /\ \E exists \in BOOLEAN : \E n \in 0..MaxRecords :
       \E records \in [1..n -> RecordUniverse] :
         load_query = [pc |-> "start", exists |-> exists,
                       records |-> IF exists THEN records ELSE <<>>,
                       idx |-> 1, rules |-> <<>>, warnings |-> 0]

\* Lines 33-41: FileNotFoundError when the file does not exist, else the
\* file is read.
OpenFile ==
  /\ load_query.pc = "start"
  /\ load_query' =
       [load_query EXCEPT !.pc = IF load_query.exists THEN "loop" ELSE "raised"]
  /\ UNCHANGED <<database, calls, band_query, cond_query, eval_query,
                 cost_query, rules_query, workflow>>

NextOpen == OpenFile \/ LoadRecord \/ LoadReturn

SpecOpen == InitOpen /\ [][NextOpen]_vars

(***************************************************************************)
(* calculate() on databases of waste and sludge rules                      *)
(***************************************************************************)
FromEurope == Condition("arrival port", "from", Str("European ports"))

FromOutsideEurope ==
  Condition("arrival port", "from", Str("non-European ports"))

\* a per-GT base rate with no condition, 0.60 SEK per GT
WasteUnconditional ==
  TariffRule("tankers", "ship_generated_solid_waste", "per_gt", <<>>, <<>>,
             RatePricing(60), "Solid waste")

\* a per-GT base rate for European arrivals, 0.50 SEK per GT
WasteClean ==
  TariffRule("tankers", "ship_generated_solid_waste", "per_gt", <<>>,
             <<FromEurope>>, RatePricing(50), "Solid waste, European arrivals")

\* a per-GT base rate carrying both arrival conditions, 0.70 SEK per GT
WasteMerged ==
  TariffRule("tankers", "ship_generated_solid_waste", "per_gt", <<>>,
             <<FromEurope, FromOutsideEurope>>, RatePricing(70),
             "Solid waste, merged arrivals")

\* a per-GT reduction for certified vessels, -0.10 SEK per GT
WasteDiscount ==
  TariffRule("tankers", "ship_generated_solid_waste", "per_gt", <<>>,
             <<FromEurope,
               Condition("certificates", "must", Str("valid certificate"))>>,
             RatePricing(0 - 10), "Solid waste reduction")

\* a flat fee per call, 200 SEK
WasteFlat ==
  TariffRule("tankers", "ship_generated_solid_waste", "flat_sek_per_call",
             <<>>, <<>>, FlatPricing(20000), "Solid waste handling fee")

\* a per-GT sludge rate for European arrivals, 0.30 SEK per GT
SludgeBase ==
  TariffRule("tankers", "sludge_oily_bilge_water", "per_gt", <<>>,
             <<FromEurope>>, RatePricing(30), "Sludge, European arrivals")

\* a per-GT sludge rate carrying both arrival conditions, 0.40 SEK per GT
SludgeBaseMerged ==
  TariffRule("tankers", "sludge_oily_bilge_water", "per_gt", <<>>,
             <<FromEurope, FromOutsideEurope>>, RatePricing(40),
             "Sludge, merged arrivals")

WasteCatalogue ==
  {WasteUnconditional, WasteClean, WasteMerged, WasteDiscount, WasteFlat,
   SludgeBase, SludgeBaseMerged, SludgeAny, SludgeExcess("more than")}

WasteParams ==
  {("vessel_type" :> Str("tankers")) @@ g @@ a @@ sl @@ v @@ c :
     g \in Optional("gt", {Num(5000)}),
     a \in Optional("arrival_origin", {Str("EU"), Str("non-EU")}),
     sl \in Optional("sludge_volume", {Num(15)}),
     v \in Optional("volume_m3", {Num(20)}),
     c \in Optional("discount_certificate_for_waste", {Bool(TRUE)})}

InitWaste ==
  /\ workflow = NoQuery
  /\ database \in Databases(WasteCatalogue)
  /\ calls = [i \in {1} |-> IdleCall]
  /\ band_query = NoQuery
  /\ cond_query = NoQuery
  /\ eval_query = NoQuery
  /\ cost_query = NoQuery
  /\ rules_query = NoQuery
  /\ load_query = NoQuery

CallWaste ==
  \E i \in DOMAIN calls : \E parameters \in WasteParams :
    calls[i].pc = "idle" /\ Begin(i, parameters)

NextWaste == CallWaste \/ Step \/ Return

SpecWaste == InitWaste /\ [][NextWaste]_vars

(***************************************************************************)
(* calculate() on databases of rules billed by volume or weight            *)
(***************************************************************************)
\* a per-volume sludge rule for deliveries of more than 110 m3
SludgeOver110 ==
  TariffRule("tankers", "sludge_oily_bilge_water", "per_m3", <<>>,
             <<Condition("sludge_volume", "more than", Num(110))>>,
             RatePricing(15000), "Sludge above 110 m3")

\* cargo dues per ton for less than 500 tons, 10 SEK per ton
CargoSmall ==
  TariffRule("tankers", "port_dues_for_cargo", "per_ton",
             <<Band("0-500", Num(0), Num(500), "standard")>>, <<>>,
             RatePricing(1000), "Cargo dues below 500 tons")

\* cargo dues per ton from 500 tons, 8 SEK per ton
CargoLarge ==
  TariffRule("tankers", "port_dues_for_cargo", "per_ton",
             <<Band("500+", Num(500), NoneV, "standard")>>, <<>>,
             RatePricing(800), "Cargo dues from 500 tons")

\* fresh water per m3 for less than 100 m3, 25 SEK per m3
WaterSmall ==
  TariffRule("tankers", "fresh_water", "per_m3",
             <<Band("0-100", Num(0), Num(100), "standard")>>, <<>>,
             RatePricing(2500), "Fresh water below 100 m3")

\* a flat security fee for vessels above 3300 GT, 500 SEK per call
SecurityLarge ==
  TariffRule("tankers", "isps_fees", "flat_sek_per_call",
             <<Band(">3300", Num(3301), NoneV, "gt_range")>>, <<>>,
             FlatPricing(50000), "ISPS fee above 3300 GT")

VolumeCatalogue ==
  {SludgeExcess("more than"), SludgeOver110, SludgeAny, CargoSmall,
   CargoLarge, WaterSmall, SecurityLarge}

VolumeParams ==
  {("vessel_type" :> Str("tankers")) @@ g @@ sl @@ v @@ w :
     g \in Optional("gt", {Num(5000)}),
     sl \in Optional("sludge_volume", {Num(15), Num(120)}),
     v \in Optional("volume_m3", {Num(20)}),
     w \in Optional("tonnage", {Num(600)})}

InitVolume ==
  /\ workflow = NoQuery
  /\ database \in Databases(VolumeCatalogue)
  /\ calls = [i \in {1} |-> IdleCall]
  /\ band_query = NoQuery
  /\ cond_query = NoQuery
  /\ eval_query = NoQuery
  /\ cost_query = NoQuery
  /\ rules_query = NoQuery
  /\ load_query = NoQuery

CallVolume ==
  \E i \in DOMAIN calls : \E parameters \in VolumeParams :
    calls[i].pc = "idle" /\ Begin(i, parameters)

NextVolume == CallVolume \/ Step \/ Return

SpecVolume == InitVolume /\ [][NextVolume]_vars

(***************************************************************************)
(* TariffWorkflow (src/core/workflow.py): the LangGraph state graph built  *)
(* by initialize() and run by process().  The compiled graph runs in       *)
(* supersteps: the nodes scheduled for a superstep run concurrently, each  *)
(* on the state as it was when the superstep began; their writes are       *)
(* applied when all have returned; a node is scheduled for the next        *)
(* superstep when some edge leads to it from a node of this one.           *)
(***************************************************************************)
GraphNodes ==
  {"query_understanding", "retriever", "compile_information",
   "tariff_computation", "response_generator"}

\* The add_edge calls of lines 121-132, one pair per call.
GraphEdges ==
  {<<"__start__", "query_understanding">>,
   <<"query_understanding", "retriever">>,
   <<"query_understanding", "compile_information">>,
   <<"compile_information", "tariff_computation">>,
   <<"retriever", "response_generator">>,
   <<"tariff_computation", "response_generator">>,
   <<"response_generator", "__end__">>}

\* The nodes an edge leads to from one of the given nodes.
Triggered(sources) ==
  {n \in GraphNodes : \E s \in sources : <<s, n>> \in GraphEdges}

\* initial_state of process(), lines 384-391
InitialState ==
  [parameters |-> <<>>, rag_context |-> "", compiled_information |-> "",
   calculation_result |-> <<>>, answer |-> ""]

\* What the components outside the graph answer for a query: the vessel
\* type the language model extracted (<<>> for none), the documents the
\* retriever found, and the total the calculator computes.
QueryOutcomes ==
  [vessel_type : {<<>>, <<"tanker">>, <<"submarine">>},
   documents : {"", "documents"},
   total : {0, 1520000}]

\* The state a node reads: the snapshot taken when the superstep began.
Snapshot == workflow.state

\* The node has been scheduled for this superstep and has not run yet.
Scheduled(node) ==
  /\ workflow.pc = "running"
  /\ node \in workflow.tasks
  /\ node \notin DOMAIN workflow.writes

\* The node returns its update: it is kept until the superstep ends.
NodeReturns(node, update) ==
  /\ workflow' =
       [workflow EXCEPT
          !.writes = (node :> update) @@ @,
          !.log = Append(@, [node |-> node, step |-> workflow.step,
                             read |-> Snapshot])]
  /\ UNCHANGED <<database, calls, band_query, cond_query, eval_query,
                 cost_query, rules_query, load_query>>

\* process(), lines 380-393: graph.invoke(initial_state)
Invoke ==
  /\ workflow.pc = "ready"
  /\ workflow' = [workflow EXCEPT !.pc = "running",
                                  !.tasks = Triggered({"__start__"})]
  /\ UNCHANGED <<database, calls, band_query, cond_query, eval_query,
                 cost_query, rules_query, load_query>>

\* _query_understanding_node, lines 140-162
QueryUnderstandingNode ==
  /\ Scheduled("query_understanding")
  /\ NodeReturns("query_understanding",
                 "parameters" :>
                   <<[vessel_type |-> workflow.outcome.vessel_type]>>)

\* _retriever_node, lines 164-185
RetrieverNode ==
  /\ Scheduled("retriever")
  /\ NodeReturns("retriever", "rag_context" :> workflow.outcome.documents)

\* _compile_information_node, lines 187-273
CompileInformationNode ==
  /\ Scheduled("compile_information")
  /\ LET parameters == Snapshot.parameters
     IN NodeReturns("compile_information",
          "compiled_information" :>
            IF parameters = <<>> THEN "No parameters extracted"
            ELSE IF parameters[1].vessel_type = <<"tanker">>
            THEN "ready_for_calculation"
            ELSE "Vessel type not identified")

\* The dictionary of lines 293-300
ErrorResult == [total |-> 0, error |-> <<"Vessel type not identified">>]

\* _tariff_computation_node, lines 275-312
TariffComputationNode ==
  /\ Scheduled("tariff_computation")
  /\ LET parameters == Snapshot.parameters
     IN NodeReturns("tariff_computation",
          "calculation_result" :>
            IF parameters = <<>> \/ parameters[1].vessel_type = <<>>
            THEN <<ErrorResult>>
            ELSE <<[total |-> IF parameters[1].vessel_type = <<"tanker">>
                              THEN workflow.outcome.total ELSE 0,
                    error |-> <<>>]>>)

\* The answer of lines 345-353: the fixed apology, or the text generated
\* from the calculation result and the retrieved context.
AnswerFor(calculation_result, rag_context) ==
  IF calculation_result = <<>> \/ calculation_result[1].error # <<>>
  THEN [text |-> "I couldn't calculate the tariff", total |-> 0,
        rag_context |-> ""]
  ELSE [text |-> "generated", total |-> calculation_result[1].total,
        rag_context |-> rag_context]

\* _response_generator_node, lines 314-358
ResponseGeneratorNode ==
  /\ Scheduled("response_generator")
  /\ NodeReturns("response_generator",
                 "answer" :> AnswerFor(Snapshot.calculation_result,
                                       Snapshot.rag_context))

\* The state with the updates of the superstep applied: every node writes a
\* key of its own.
ApplyWrites(state, writes) ==
  [key \in DOMAIN state |->
     IF \E node \in DOMAIN writes : key \in DOMAIN writes[node]
     THEN LET node == CHOOSE n \in DOMAIN writes : key \in DOMAIN writes[n]
          IN writes[node][key]
     ELSE state[key]]

\* Every node of the superstep has returned: the updates are applied and
\* the nodes the edges lead to are scheduled; with none left, invoke()
\* returns the state.
EndSuperstep ==
  /\ workflow.pc = "running"
  /\ DOMAIN workflow.writes = workflow.tasks
  /\ LET next == Triggered(workflow.tasks)
     IN workflow' =
          [workflow EXCEPT
             !.state = ApplyWrites(workflow.state, workflow.writes),
             !.writes = [n \in {} |-> <<>>],
             !.tasks = next,
             !.step = @ + 1,
             !.pc = IF next = {} THEN "finished" ELSE "running"]
  /\ UNCHANGED <<database, calls, band_query, cond_query, eval_query,
                 cost_query, rules_query, load_query>>

InitFlow ==
  /\ database = <<>>
  /\ calls = [i \in {} |-> IdleCall]
  /\ band_query = NoQuery
  /\ cond_query = NoQuery
  /\ eval_query = NoQuery
  /\ cost_query = NoQuery
  /\ rules_query = NoQuery
  /\ load_query = NoQuery
  /\ \E outcome \in QueryOutcomes :
       workflow = [pc |-> "ready", outcome |-> outcome,
                   state |-> InitialState, tasks |-> {},
                   writes |-> [n \in {} |-> <<>>], step |-> 0, log |-> <<>>]

NextFlow ==
  \/ Invoke
  \/ QueryUnderstandingNode
  \/ RetrieverNode
  \/ CompileInformationNode
  \/ TariffComputationNode
  \/ ResponseGeneratorNode
  \/ EndSuperstep

SpecFlow == InitFlow /\ [][NextFlow]_vars

(***************************************************************************)
(* Properties of calculate()                                               *)
(***************************************************************************)
Done(i) == calls[i].pc = "done"

ContextOf(i) == BuildContext(calls[i].parameters)

HasVesselType(i) ==
  /\ "vessel_type" \in DOMAIN calls[i].parameters
  /\ calls[i].parameters["vessel_type"].s # ""

\* The breakdown entries of a component.
EntriesOf(i, component) ==
  {k \in 1..Len(calls[i].result.breakdown) :
     calls[i].result.breakdown[k].component = component}

\* The breakdown entries that come from a rule of the database.
LinesOfRule(i, rule) ==
  {k \in 1..Len(calls[i].result.applicable_rules) :
     calls[i].result.applicable_rules[k] = <<rule>>}

\* The breakdown entries with no originating rule.
AutomaticEntries(i) ==
  {k \in 1..Len(calls[i].result.applicable_rules) :
     calls[i].result.applicable_rules[k] = <<>>}

PortDues(i) ==
  IF "port_infrastructure_dues" \in DOMAIN calls[i].result.components
  THEN calls[i].result.components["port_infrastructure_dues"]
  ELSE 0

\* C1: a call that supplies a vessel type never raises, whatever optional
\* keys it omits: it always ends by returning a result.
C1_NeverRaises ==
  \A i \in DOMAIN calls : HasVesselType(i) => calls[i].pc # "raised"

\* An infrastructure-dues rule that is applicable and passes the band lookup.
QualifyingInfraRule(rule, context) ==
  /\ rule.component = "port_infrastructure_dues"
  /\ CheckRuleApplicable(rule, context)
  /\ (rule.bands = <<>> \/ BandForRule(rule, context) # <<>>)

\* C2: at most one breakdown entry has component port_infrastructure_dues,
\* at every point of every call.
C2_AtMostOneInfraEntry ==
  \A i \in DOMAIN calls :
    Cardinality(EntriesOf(i, "port_infrastructure_dues")) <= 1

\* Two infrastructure-dues rules qualified and exactly one was charged.
C2_TwoCandidatesOneCharge ==
  \E i \in DOMAIN calls :
    /\ Done(i)
    /\ Cardinality({k \in 1..Len(calls[i].sorted_rules) :
                      QualifyingInfraRule(calls[i].sorted_rules[k],
                                          ContextOf(i))}) >= 2
    /\ Cardinality(EntriesOf(i, "port_infrastructure_dues")) = 1

EsiQualifies(i) ==
  /\ "esi_score" \in DOMAIN calls[i].parameters
  /\ calls[i].parameters["esi_score"].n >= 30
  /\ PortDues(i) > 0

\* C3 as claimed: the result holds the component environmental_discounts
\* iff esi_score is present and >= 30 and the dues are > 0, and its value is
\* then exactly -10% of the dues.
C3_DiscountComponentIffEsi ==
  \A i \in DOMAIN calls :
    Done(i) =>
      LET components == calls[i].result.components
      IN /\ ("environmental_discounts" \in DOMAIN components) <=> EsiQualifies(i)
         /\ "environmental_discounts" \in DOMAIN components =>
              components["environmental_discounts"] * 10 = 0 - PortDues(i)

\* C3 as amended: the automatic entry (the one with no originating rule) is
\* there iff esi_score is present and >= 30 and the dues are > 0; it is an
\* environmental_discounts entry of exactly -10% of the dues; and when no
\* rule of the database put an environmental_discounts entry of its own,
\* the component is there iff the automatic entry is and has its value.
C3_AutomaticDiscountIffEsi ==
  \A i \in DOMAIN calls :
    Done(i) =>
      LET components == calls[i].result.components
          breakdown == calls[i].result.breakdown
      IN /\ (AutomaticEntries(i) # {}) <=> EsiQualifies(i)
         /\ Cardinality(AutomaticEntries(i)) <= 1
         /\ \A k \in AutomaticEntries(i) :
              /\ breakdown[k].component = "environmental_discounts"
              /\ breakdown[k].cost * 10 = 0 - PortDues(i)
         /\ EntriesOf(i, "environmental_discounts") \subseteq AutomaticEntries(i)
              => /\ ("environmental_discounts" \in DOMAIN components)
                      <=> EsiQualifies(i)
                 /\ "environmental_discounts" \in DOMAIN components =>
                      components["environmental_discounts"] * 10
                        = 0 - PortDues(i)

\* The automatic discount was applied next to a discount rule's own entry.
C3_AutomaticBesideRuleDiscount ==
  \E i \in DOMAIN calls :
    /\ Done(i)
    /\ EsiQualifies(i)
    /\ AutomaticEntries(i) # {}
    /\ Cardinality(EntriesOf(i, "environmental_discounts")) = 2

\* A per-volume sludge rule conditioned on the sludge volume being greater
\* than 11, in any spelling of greater-than.
IsExcessSludgeRule(rule) ==
  /\ rule.component = "sludge_oily_bilge_water"
  /\ rule.charging_method = "per_m3"
  /\ \E k \in 1..Len(rule.conditions) :
       /\ rule.conditions[k].field = "sludge_volume"
       /\ rule.conditions[k].operator \in {"gt", ">", "greater_than", "more than"}
       /\ rule.conditions[k].value = Num(11)

\* C4: an excess sludge rule produces no line when sludge_volume <= 11 and,
\* when sludge_volume > 11, a line of cost rate x (sludge_volume - 11).
C4_ExcessSludgeBilled ==
  \A i \in DOMAIN calls :
    Done(i) =>
      \A k \in 1..Len(calls[i].sorted_rules) :
        LET rule == calls[i].sorted_rules[k]
            sludge == ContextGetOr(calls[i].parameters, "sludge_volume", Num(0)).n
            lines == LinesOfRule(i, rule)
        IN IsExcessSludgeRule(rule) =>
             IF sludge <= 11 THEN lines = {}
             ELSE CheckRuleApplicable(rule, ContextOf(i)) =>
                    /\ lines # {}
                    /\ \A j \in lines :
                         calls[i].result.breakdown[j].cost
                           = rule.pricing.rate.n * (sludge - 11)

\* C6: a call without a vessel type (absent or empty) returns the fresh
\* result, total 0, no component, no breakdown entry, and has evaluated no
\* rule.
C6_NoVesselTypeEmptyResult ==
  \A i \in DOMAIN calls :
    (calls[i].pc # "idle" /\ ~HasVesselType(i)) =>
      /\ Done(i)
      /\ calls[i].result.total = 0
      /\ DOMAIN calls[i].result.components = {}
      /\ calls[i].result.breakdown = <<>>
      /\ calls[i].result.applicable_rules = <<>>
      /\ calls[i].sorted_rules = <<>>
      /\ calls[i].idx = 1

\* A call without vessel type returned on a database that holds rules, with
\* other keys supplied.
C6_ReturnedEmptyOnRules ==
  \E i \in DOMAIN calls :
    /\ Done(i)
    /\ ~HasVesselType(i)
    /\ "gt" \in DOMAIN calls[i].parameters
    /\ database # <<>>

\* A per-GT infrastructure rule with positive rate, all bands tagged "gt",
\* whose conditions hold and one of whose bands contains the gross tonnage.
GtTaggedRuleInBand(rule, context) ==
  /\ rule.component = "port_infrastructure_dues"
  /\ rule.charging_method = "per_gt"
  /\ rule.pricing.rate.t = "num" /\ rule.pricing.rate.n > 0
  /\ rule.bands # <<>>
  /\ \A k \in 1..Len(rule.bands) : rule.bands[k].band_type = "gt"
  /\ CheckRuleApplicable(rule, context)
  /\ \E k \in 1..Len(rule.bands) :
       /\ rule.bands[k].min_value.n <= context["gt"].n
       /\ (rule.bands[k].max_value.t = "none"
             \/ context["gt"].n < rule.bands[k].max_value.n)

\* C7: with such a rule in a database without discount rules, the result has
\* total > 0 and a port_infrastructure_dues component.
C7_GtTaggedBandsCharged ==
  \A i \in DOMAIN calls :
    ( /\ Done(i)
      /\ \E k \in 1..Len(calls[i].sorted_rules) :
           GtTaggedRuleInBand(calls[i].sorted_rules[k], ContextOf(i))
      /\ \A k \in 1..Len(calls[i].sorted_rules) :
           calls[i].sorted_rules[k].component # "environmental_discounts" )
    => /\ calls[i].result.total > 0
       /\ "port_infrastructure_dues" \in DOMAIN calls[i].result.components

\* C5: two calls with equal parameters on one database end alike, whatever
\* calls came before them on the same calculator: both return, with equal
\* total, components, breakdown and applied rules (or both raise).
C5_EqualCallsEqualResults ==
  \A i, j \in DOMAIN calls :
    ( /\ calls[i].pc \in {"done", "raised"}
      /\ calls[j].pc \in {"done", "raised"}
      /\ calls[i].parameters = calls[j].parameters )
    => /\ calls[i].pc = calls[j].pc
       /\ calls[i].result = calls[j].result

\* Two callers got the same non-empty result for equal parameters, one of
\* them after an earlier call and the other on its first call.
C5_SameResultAfterEarlierCall ==
  /\ DOMAIN calls = {1, 2}
  /\ Done(1) /\ Done(2)
  /\ calls[1].parameters = calls[2].parameters
  /\ calls[1].earlier /\ ~calls[2].earlier
  /\ calls[1].result = calls[2].result
  /\ Len(calls[1].result.breakdown) >= 2

(***************************************************************************)
(* Properties of find_applicable_band                                      *)
(***************************************************************************)
BandReturned == band_query.pc = "returned"

\* The half-open interval of the band contains the value.
IntervalContains(band, value) ==
  /\ (band.min_value.t = "none" \/ band.min_value.n <= value)
  /\ (band.max_value.t = "none" \/ value < band.max_value.n)

\* The positions of the bands with the requested tag that contain the value.
Candidates ==
  {k \in 1..Len(band_query.rule.bands) :
     /\ band_query.rule.bands[k].band_type = band_query.band_type
     /\ IntervalContains(band_query.rule.bands[k], band_query.value)}

C9_UpperBoundaryFound ==
  BandReturned =>
    \A k \in 1..Len(band_query.rule.bands) :
      LET band == band_query.rule.bands[k]
      IN ( /\ band.band_type = band_query.band_type
           /\ band.max_value = Num(band_query.value)
           /\ (band.min_value.t = "none" \/ band.min_value.n <= band_query.value)
           /\ \A l \in 1..Len(band_query.rule.bands) :
                ~IntervalContains(band_query.rule.bands[l], band_query.value) )
         => band_query.result = <<band>>

(***************************************************************************)
(* Properties of check_rule_applicable                                     *)
(***************************************************************************)
CondReturned == cond_query.pc = "returned"

\* The positions of the equality-class conditions on an arrival field.
ArrivalEqualityConditions ==
  {k \in 1..Len(cond_query.rule.conditions) :
     /\ cond_query.rule.conditions[k].field \in {"arrival port", "arrival_region"}
     /\ cond_query.rule.conditions[k].operator
          \in {"eq", "=", "==", "equals", "from", "must"}}

\* C10: with more than one equality-class arrival condition, the rule is
\* applicable iff one of them holds and every other condition holds.
C10_ArrivalConditionsOred ==
  (CondReturned /\ Cardinality(ArrivalEqualityConditions) > 1) =>
    cond_query.result =
      ( /\ \E k \in ArrivalEqualityConditions :
             EvaluateCondition(cond_query.rule.conditions[k], cond_query.context)
        /\ \A k \in (1..Len(cond_query.rule.conditions))
                      \ ArrivalEqualityConditions :
             EvaluateCondition(cond_query.rule.conditions[k], cond_query.context) )

\* C11: a rule without conditions is applicable in every context, and a rule
\* with at most one equality-class arrival condition is applicable iff every
\* one of its conditions evaluates to true.
C11_AllConditionsMustHold ==
  CondReturned =>
    /\ cond_query.rule.conditions = <<>> => cond_query.result
    /\ Cardinality(ArrivalEqualityConditions) <= 1 =>
         cond_query.result =
           (\A k \in 1..Len(cond_query.rule.conditions) :
              EvaluateCondition(cond_query.rule.conditions[k],
                                cond_query.context))

\* A rule of two conditions or more, outside the tolerance case, was found
\* inapplicable because exactly one of its conditions fails.
C11_OneFailingConditionRejects ==
  /\ CondReturned
  /\ Len(cond_query.rule.conditions) >= 2
  /\ Cardinality(ArrivalEqualityConditions) <= 1
  /\ Cardinality({k \in 1..Len(cond_query.rule.conditions) :
                    ~EvaluateCondition(cond_query.rule.conditions[k],
                                       cond_query.context)}) = 1
  /\ ~cond_query.result

(***************************************************************************)
(* Properties of evaluate_condition                                        *)
(***************************************************************************)
EvalReturned == eval_query.pc = "returned"

\* The context holds no non-null value for the condition, neither under the
\* aliased key nor under the raw field name.
ValueMissing ==
  LET field == eval_query.condition.field
  IN /\ IsNone(ContextGet(eval_query.context, field))
     /\ field \in DOMAIN FieldMapping =>
          IsNone(ContextGet(eval_query.context, FieldMapping[field]))

\* C12: whatever the operator and the target, a condition whose value is
\* missing from the context evaluates to false.
C12_MissingValueIsFalse ==
  (EvalReturned /\ ValueMissing) => ~eval_query.result

\* A missing value met an operator under which None would compare as true
\* (None differs from the target), and the condition came out false.
C12_MissingUnderInequality ==
  /\ EvalReturned
  /\ ValueMissing
  /\ eval_query.condition.operator \in {"ne", "not_in"}
  /\ "sludge_volume" \in DOMAIN eval_query.context
  /\ ~eval_query.result

\* The recognised spellings of a non-EU and of an EU arrival.
NonEuSpelling(v) == IsStr(v) /\ Lower(v.s) \in NonEuIndicators

EuSpelling(v) == IsStr(v) /\ Lower(v.s) \in {"eu", "europe", "european"}

\* C13: an equality-class condition authored on "arrival port",
\* "arrival_region" or "arrival_origin" holds, when its target phrase
\* contains "non", iff the arrival origin is a non-EU spelling, and
\* otherwise, when the phrase contains "eu" or "europe", iff the arrival
\* origin is an EU spelling.
C13_ArrivalPhraseMatching ==
  LET condition == eval_query.condition
      target_lower == Lower(condition.value.s)
      origin == ContextGet(eval_query.context, "arrival_origin")
  IN ( /\ EvalReturned
       /\ condition.field \in ArrivalAuthorings
       /\ condition.operator \in EqualityOperators
       /\ IsStr(condition.value) )
     => IF Contains(target_lower, "non")
        THEN eval_query.result = NonEuSpelling(origin)
        ELSE (Contains(target_lower, "eu") \/ Contains(target_lower, "europe"))
               => eval_query.result = EuSpelling(origin)

(***************************************************************************)
(* Properties of calculate_component_cost                                  *)
(***************************************************************************)
CostReturned == cost_query.pc = "returned"

\* The value of a quantity key in the context, 0 when the key is absent.
QuantityInContext(key) ==
  IF key \in DOMAIN cost_query.context THEN cost_query.context[key].n ELSE 0

\* C14: the quantity is the override when one is given; otherwise gt for
\* per_gt, volume_m3 for per_m3, tonnage for per_ton, loa_metres for
\* per_metre_loa, passenger_count for per_passenger, teu for per_teu (0 when
\* absent), 1 for flat_sek_per_call and per_call, 0 for any other method; a
\* rule priced by a rate alone costs rate x that quantity.
C14_QuantityTable ==
  CostReturned =>
    LET method == cost_query.rule.charging_method
        pricing == cost_query.rule.pricing
        expected ==
          IF ~IsNone(cost_query.override) THEN cost_query.override.n
          ELSE CASE method = "per_gt" -> QuantityInContext("gt")
                 [] method = "per_m3" -> QuantityInContext("volume_m3")
                 [] method = "per_ton" -> QuantityInContext("tonnage")
                 [] method = "per_metre_loa" -> QuantityInContext("loa_metres")
                 [] method = "per_passenger" ->
                      QuantityInContext("passenger_count")
                 [] method = "per_teu" -> QuantityInContext("teu")
                 [] method \in {"flat_sek_per_call", "per_call"} -> 1
                 [] OTHER -> 0
    IN /\ cost_query.quantity = expected
       /\ ( /\ ~IsNone(pricing.rate)
            /\ IsNone(pricing.percentage)
            /\ IsNone(pricing.min_charge)
            /\ IsNone(pricing.max_charge) )
          => cost_query.result = pricing.rate.n * expected

\* A method outside the table and the flat-fee methods was priced by a rate
\* with no override, and cost nothing.
C14_UnmappedMethodCostsNothing ==
  /\ CostReturned
  /\ cost_query.rule.charging_method \in {"per_24h_period", "percentage"}
  /\ IsNone(cost_query.override)
  /\ cost_query.rule.pricing.rate = Num(1000)
  /\ cost_query.context = FullCostContext
  /\ cost_query.quantity = 0
  /\ cost_query.result = 0

\* C15: before clamping, the cost is base x (1 + percentage/100) when a
\* percentage is set and base otherwise, base being rate x quantity whenever
\* a rate is set (0 included, flat fee or not), else the flat fee when set,
\* else 0; a negative percentage lowers a positive base and a positive one
\* raises it.
C15_BaseAndPercentage ==
  CostReturned =>
    LET pricing == cost_query.rule.pricing
        base == IF ~IsNone(pricing.rate)
                THEN pricing.rate.n * cost_query.quantity
                ELSE IF ~IsNone(pricing.flat_fee) THEN pricing.flat_fee.n
                ELSE 0
    IN /\ IsNone(pricing.percentage) => cost_query.amount = base
       /\ ~IsNone(pricing.percentage) =>
            /\ cost_query.amount * 100 = base * (100 + pricing.percentage.n)
            /\ (base > 0 /\ pricing.percentage.n < 0) => cost_query.amount < base
            /\ (base > 0 /\ pricing.percentage.n > 0) => cost_query.amount > base
       /\ (IsNone(pricing.min_charge) /\ IsNone(pricing.max_charge))
            => cost_query.result = cost_query.amount

\* A rate of 0 beside a flat fee: the rate wins and the rule costs nothing.
C15_ZeroRateBeatsFlatFee ==
  /\ CostReturned
  /\ cost_query.rule.pricing.rate = Num(0)
  /\ cost_query.rule.pricing.flat_fee = Num(50000)
  /\ cost_query.rule.pricing.percentage = Num(0 - 10)
  /\ IsNone(cost_query.rule.pricing.min_charge)
  /\ cost_query.quantity > 0
  /\ cost_query.result = 0

\* C16: the cost returned is min(max(amount, min_charge), max_charge), each
\* constraint only if set; it never exceeds max_charge, and it is at least
\* min_charge when min_charge <= max_charge or max_charge is unset.
C16_ClampMinThenMax ==
  CostReturned =>
    LET pricing == cost_query.rule.pricing
        amount == cost_query.amount
        floored == IF IsNone(pricing.min_charge) THEN amount
                   ELSE IF amount >= pricing.min_charge.n THEN amount
                   ELSE pricing.min_charge.n
        capped == IF IsNone(pricing.max_charge) THEN floored
                  ELSE IF floored <= pricing.max_charge.n THEN floored
                  ELSE pricing.max_charge.n
    IN /\ cost_query.result = capped
       /\ ~IsNone(pricing.max_charge)
            => cost_query.result <= pricing.max_charge.n
       /\ ( /\ ~IsNone(pricing.min_charge)
            /\ \/ IsNone(pricing.max_charge)
               \/ pricing.min_charge.n <= pricing.max_charge.n )
            => cost_query.result >= pricing.min_charge.n

\* A minimum above the maximum: the amount was raised to the minimum and
\* then cut to the maximum.
C16_MaxWinsOverMin ==
  /\ CostReturned
  /\ ~IsNone(cost_query.rule.pricing.min_charge)
  /\ ~IsNone(cost_query.rule.pricing.max_charge)
  /\ cost_query.rule.pricing.min_charge.n > cost_query.rule.pricing.max_charge.n
  /\ cost_query.amount < cost_query.rule.pricing.max_charge.n
  /\ cost_query.result = cost_query.rule.pricing.max_charge.n

(***************************************************************************)
(* Properties of interleaved calls                                         *)
(***************************************************************************)
RECURSIVE CompleteAlone(_)
\* The frame at the return of calculate() when every remaining step of the
\* invocation runs with no step of another invocation in between.
CompleteAlone(frame) ==
  IF frame.pc # "loop" THEN frame
  ELSE IF frame.idx <= Len(frame.sorted_rules)
  THEN CompleteAlone(ProcessOneRule(frame, frame.sorted_rules[frame.idx]))
  ELSE [frame EXCEPT
          !.pc = "done",
          !.result = ApplyEsiDiscount(frame.result,
                                      BuildContext(frame.parameters))]

\* The invocation of frame i run alone from its entry.
RunAlone(i) == CompleteAlone(BeginCall(IdleCall, calls[i].parameters, database))

\* C17: at every point of every interleaving, an invocation is where it
\* would be when run alone: completing it gives the result (and the applied
\* set) of the same call run alone, and a returned invocation has exactly
\* that result.
C17_InterleavedAsAlone ==
  \A i \in DOMAIN calls :
    calls[i].pc # "idle" =>
      /\ CompleteAlone(calls[i]).pc = RunAlone(i).pc
      /\ CompleteAlone(calls[i]).result = RunAlone(i).result
      /\ CompleteAlone(calls[i]).applied_components
           = RunAlone(i).applied_components
      /\ Done(i) => calls[i].result = RunAlone(i).result

\* Both invocations are in the middle of their loops, each having already
\* charged a rule into its own result.
C17_BothMidLoop ==
  /\ DOMAIN calls = {1, 2}
  /\ \A i \in {1, 2} :
       /\ calls[i].pc = "loop"
       /\ calls[i].idx > 1
       /\ calls[i].idx <= Len(calls[i].sorted_rules)
       /\ calls[i].result.breakdown # <<>>
       /\ "port_infrastructure_dues" \in calls[i].applied_components

\* C18: no step of any calculate() call changes the rule database: it holds
\* the same rules in the same order, with the same bands, conditions and
\* pricing.
C18_DatabaseNeverWritten == [][database' = database]_vars

\* A call returned after working on the rules in an order other than the
\* database's, and the database is still in its own order.
C18_SortedCopyDiffers ==
  \E i \in DOMAIN calls :
    /\ Done(i)
    /\ Len(calls[i].sorted_rules) = Len(database)
    /\ calls[i].sorted_rules # database
    /\ calls[i].sorted_rules = SortedByPriority(database)
    /\ calls[i].result.breakdown # <<>>

(***************************************************************************)
(* Properties of get_rules                                                 *)
(***************************************************************************)
\* The positions of the database rules that match every filter given.
MatchingPositions ==
  {k \in 1..Len(database) :
     /\ IsNone(rules_query.vessel_type)
          \/ database[k].vessel_type = rules_query.vessel_type.s
     /\ IsNone(rules_query.component)
          \/ database[k].component = rules_query.component.s}

\* The j-th matching position, in database order.
NthMatching(j) ==
  CHOOSE k \in MatchingPositions :
    Cardinality({m \in MatchingPositions : m < k}) = j - 1

\* C19: get_rules returns exactly the rules that match every filter given,
\* in database order (all of them without filter), and every rule behind a
\* breakdown entry of a call has the vessel type the call asked for.
C19_RulesOfRequestedVesselType ==
  /\ rules_query.pc = "returned" =>
       /\ Len(rules_query.result) = Cardinality(MatchingPositions)
       /\ \A j \in 1..Len(rules_query.result) :
            rules_query.result[j] = database[NthMatching(j)]
       /\ (IsNone(rules_query.vessel_type) /\ IsNone(rules_query.component))
            => rules_query.result = database
  /\ \A i \in DOMAIN calls :
       \A k \in 1..Len(calls[i].result.applicable_rules) :
         LET applied == calls[i].result.applicable_rules[k]
         IN applied # <<>> =>
              Str(applied[1].vessel_type)
                = ContextGet(calls[i].parameters, "vessel_type")

\* On a database with rules of two vessel types, a filtered query returned
\* some of the rules but not all, and a call charged a rule of its own
\* vessel type only.
C19_OtherVesselTypeLeftOut ==
  /\ rules_query.pc = "returned"
  /\ ~IsNone(rules_query.vessel_type)
  /\ Len(rules_query.result) >= 1
  /\ Len(rules_query.result) < Len(database)
  /\ \E i \in DOMAIN calls :
       /\ Done(i)
       /\ calls[i].result.breakdown # <<>>
       /\ \E k \in 1..Len(database) :
            Str(database[k].vessel_type)
              # ContextGet(calls[i].parameters, "vessel_type")

(***************************************************************************)
(* Properties of load_from_json                                            *)
(***************************************************************************)
\* The well-formed records of the model's files.
WellFormedRecords == {GoodBandedRecord, GoodPlainRecord}

\* The positions of the well-formed records of the file.
WellFormedPositions ==
  {k \in 1..Len(load_query.records) :
     load_query.records[k] \in WellFormedRecords}

\* The j-th well-formed position, in file order.
NthWellFormed(j) ==
  CHOOSE k \in WellFormedPositions :
    Cardinality({m \in WellFormedPositions : m < k}) = j - 1

\* C20: the load never aborts on a malformed record, and the database it
\* returns holds the rule of every well-formed record and of no other, in
\* the order of the file.
C20_MalformedRecordsDropped ==
  /\ load_query.pc \in {"unused", "loop", "returned"}
  /\ load_query.pc = "returned" =>
       /\ Len(database) = Cardinality(WellFormedPositions)
       /\ \A j \in 1..Len(database) :
            LET fields == load_query.records[NthWellFormed(j)].fields
            IN /\ database[j].vessel_type = fields["vessel_type"].s
               /\ database[j].component = fields["component"].s
               /\ database[j].description = fields["description"].s
               /\ Len(database[j].bands)
                    = (IF "bands" \in DOMAIN fields
                       THEN Len(fields["bands"]) ELSE 0)
       /\ load_query.warnings
            = Len(load_query.records) - Cardinality(WellFormedPositions)

\* A file with a malformed record between two well-formed ones was loaded:
\* both rules are in the database, in the order of the file.
C20_BadRecordBetweenGoodOnes ==
  /\ load_query.pc = "returned"
  /\ Len(load_query.records) = 3
  /\ load_query.records[1] = GoodPlainRecord
  /\ load_query.records[2] \notin WellFormedRecords
  /\ load_query.records[3] = GoodBandedRecord
  /\ Len(database) = 2
  /\ database[1].component = "fresh_water"
  /\ database[2].component = "port_infrastructure_dues"

\* C21: load_from_json on a path that names no file returns None: it ends
\* without raising and without a database.
C21_MissingFileReturnsNone ==
  (load_query.pc \notin {"unused", "start"} /\ "exists" \in DOMAIN load_query)
    => (~load_query.exists => load_query.pc = "returned_none")

\* The priority the claim gives an infrastructure-dues rule: its number of
\* bands, or 999 when it has none.
InfraPriority(rule) == IF rule.bands # <<>> THEN Len(rule.bands) ELSE 999

\* The positions in the database of the infrastructure-dues rules that are
\* applicable and pass the band lookup for the call of frame i.
QualifyingPositions(i) ==
  {k \in 1..Len(database) : QualifyingInfraRule(database[k], ContextOf(i))}

\* The qualifying position that comes first in ascending priority, ties
\* broken by database order.
FirstQualifying(i) ==
  CHOOSE k \in QualifyingPositions(i) :
    \A m \in QualifyingPositions(i) :
      \/ InfraPriority(database[k]) < InfraPriority(database[m])
      \/ InfraPriority(database[k]) = InfraPriority(database[m]) /\ k <= m

\* C22: when a call has returned, every port_infrastructure_dues entry of
\* its breakdown comes from the qualifying rule that is first in ascending
\* priority (band count, 999 for a bandless rule, ties by database order),
\* and that rule is charged whenever its cost is not zero; so a rule with
\* fewer bands wins over one with more, and a bandless rule is charged only
\* when no banded rule qualifies.
C22_FirstByPriorityCharged ==
  \A i \in DOMAIN calls :
    (Done(i) /\ HasVesselType(i)) =>
      LET entries == EntriesOf(i, "port_infrastructure_dues")
          rules == calls[i].result.applicable_rules
      IN /\ entries # {} => QualifyingPositions(i) # {}
         /\ QualifyingPositions(i) # {} =>
              LET first == database[FirstQualifying(i)]
                  cost == CalculateComponentCost(first, ContextOf(i), NoneV)
              IN /\ \A k \in entries : rules[k] = <<first>>
                 /\ cost # 0 => entries # {}
                 /\ \A k \in entries :
                      \A m \in QualifyingPositions(i) :
                        /\ InfraPriority(rules[k][1])
                             <= InfraPriority(database[m])
                        /\ rules[k][1].bands = <<>>
                             => database[m].bands = <<>>

\* A banded rule and a bandless rule both qualified, the bandless one stored
\* first, and the banded one was charged.
C22_BandedBeatsEarlierBandless ==
  \E i \in DOMAIN calls :
    /\ Done(i)
    /\ \E k, m \in QualifyingPositions(i) :
         /\ k < m
         /\ database[k].bands = <<>>
         /\ database[m].bands # <<>>
         /\ LinesOfRule(i, database[m]) # {}
         /\ LinesOfRule(i, database[k]) = {}

\* The positions of a rule in the evaluation order of frame i.
OccurrencesOf(i, rule) ==
  {p \in 1..Len(calls[i].sorted_rules) : calls[i].sorted_rules[p] = rule}

\* A per-GT solid-waste rule with a strictly positive rate.
IsWasteBaseRule(rule) ==
  /\ rule.component = "ship_generated_solid_waste"
  /\ rule.charging_method = "per_gt"
  /\ ~IsNone(rule.pricing.rate)
  /\ rule.pricing.rate.n > 0

\* The rule is applicable for the call of frame i and passes the band lookup.
AppliesIn(i, rule) ==
  /\ CheckRuleApplicable(rule, ContextOf(i))
  /\ (rule.bands = <<>> \/ BandForRule(rule, ContextOf(i)) # <<>>)

\* C23: in the result of a call, at most one breakdown entry comes from a
\* per-GT solid-waste rule with a strictly positive rate, and every
\* solid-waste rule with another rate or charging method that applies with
\* a nonzero cost has one entry for each of its occurrences in the database.
C23_OneWasteBaseOthersAdditive ==
  \A i \in DOMAIN calls :
    Done(i) =>
      LET rules == calls[i].result.applicable_rules
      IN /\ Cardinality({k \in 1..Len(rules) :
                           rules[k] # <<>> /\ IsWasteBaseRule(rules[k][1])}) <= 1
         /\ \A p \in 1..Len(calls[i].sorted_rules) :
              LET rule == calls[i].sorted_rules[p]
              IN (/\ rule.component = "ship_generated_solid_waste"
                  /\ ~IsWasteBaseRule(rule)
                  /\ AppliesIn(i, rule)
                  /\ CalculateComponentCost(rule, ContextOf(i), NoneV) # 0)
                   => Cardinality(LinesOfRule(i, rule))
                        = Cardinality(OccurrencesOf(i, rule))

\* Two base rules applied and only the one evaluated first was charged.
C23_SecondBaseSkipped ==
  \E i \in DOMAIN calls :
    /\ Done(i)
    /\ \E p, q \in 1..Len(calls[i].sorted_rules) :
         /\ p < q
         /\ IsWasteBaseRule(calls[i].sorted_rules[p])
         /\ LinesOfRule(i, calls[i].sorted_rules[p]) # {}
         /\ IsWasteBaseRule(calls[i].sorted_rules[q])
         /\ calls[i].sorted_rules[q] # calls[i].sorted_rules[p]
         /\ AppliesIn(i, calls[i].sorted_rules[q])
         /\ LinesOfRule(i, calls[i].sorted_rules[q]) = {}

WasteOrSludge(rule) ==
  rule.component \in {"ship_generated_solid_waste", "sludge_oily_bilge_water"}

\* The rule has more than one arrival/region condition.
HasMergedArrivals(rule) ==
  Cardinality({k \in 1..Len(rule.conditions) :
                 rule.conditions[k].field \in {"arrival port", "arrival_region"}})
    > 1

\* A per-GT base rule: solid waste with a positive rate, or sludge.
IsBaseRule(rule) ==
  \/ IsWasteBaseRule(rule)
  \/ rule.component = "sludge_oily_bilge_water" /\ rule.charging_method = "per_gt"

\* The per-GT base rules without merged arrivals, of a component, that apply
\* in frame i, by position in the evaluation order.
CleanBasePositions(i, component) ==
  {p \in 1..Len(calls[i].sorted_rules) :
     LET rule == calls[i].sorted_rules[p]
     IN /\ rule.component = component
        /\ IsBaseRule(rule)
        /\ ~HasMergedArrivals(rule)
        /\ AppliesIn(i, rule)}

Finished(i) == calls[i].pc \in {"done", "raised"}

\* The cost calculate() computes for a rule at lines 260-276.
CostIn(i, rule) ==
  CalculateComponentCost(rule, ContextOf(i), QuantityOverride(rule, ContextOf(i)))

\* C25: in any call, at most one breakdown entry comes from a per-GT sludge
\* rule, and every per-m3 sludge rule that applies with a nonzero cost has
\* one entry for each of its occurrences in the database, the sludge
\* component being the sum of the sludge entries.
C25_PerVolumeSludgeAdditive ==
  \A i \in DOMAIN calls :
    Finished(i) =>
      LET rules == calls[i].result.applicable_rules
          breakdown == calls[i].result.breakdown
      IN /\ Cardinality({k \in 1..Len(rules) :
                           /\ rules[k] # <<>>
                           /\ rules[k][1].component = "sludge_oily_bilge_water"
                           /\ rules[k][1].charging_method = "per_gt"}) <= 1
         /\ \A p \in 1..Len(calls[i].sorted_rules) :
              LET rule == calls[i].sorted_rules[p]
              IN (/\ IsPerVolumeSludge(rule)
                  /\ AppliesIn(i, rule)
                  /\ CostIn(i, rule) # 0)
                   => /\ Cardinality(LinesOfRule(i, rule))
                           = Cardinality(OccurrencesOf(i, rule))
                      /\ \A k \in LinesOfRule(i, rule) :
                           breakdown[k].cost = CostIn(i, rule)

\* The positions of the bands with a given tag that contain the value.
Tagged(tag) ==
  {k \in 1..Len(band_query.rule.bands) :
     /\ band_query.rule.bands[k].band_type = tag
     /\ IntervalContains(band_query.rule.bands[k], band_query.value)}

RECURSIVE CostOfEntries(_, _)
\* The sum of the costs of the breakdown entries at the given positions.
CostOfEntries(breakdown, positions) ==
  IF positions = {} THEN 0
  ELSE LET k == CHOOSE p \in positions : TRUE
       IN breakdown[k].cost + CostOfEntries(breakdown, positions \ {k})

\* C27: at every point of every call, total is the sum of the breakdown
\* costs, components holds exactly the components of the breakdown, each
\* with the sum of the costs of its entries, and the breakdown and the list
\* of applied rules have the same length, entry k carrying the component
\* and the description of rule k, or the component name twice when rule k
\* is null.
C27_ResultConsistent ==
  \A i \in DOMAIN calls :
    LET result == calls[i].result
        breakdown == result.breakdown
    IN /\ result.total = CostOfEntries(breakdown, DOMAIN breakdown)
       /\ DOMAIN result.components
            = {breakdown[k].component : k \in DOMAIN breakdown}
       /\ \A name \in DOMAIN result.components :
            result.components[name]
              = CostOfEntries(breakdown, EntriesOf(i, name))
       /\ Len(breakdown) = Len(result.applicable_rules)
       /\ \A k \in DOMAIN breakdown :
            IF result.applicable_rules[k] = <<>>
            THEN breakdown[k].rule_description = breakdown[k].component
            ELSE /\ breakdown[k].rule_description
                      = result.applicable_rules[k][1].description
                 /\ breakdown[k].component
                      = result.applicable_rules[k][1].component

\* A returned result with two entries of one component, one of them the
\* automatic discount with no rule, and an entry of another component.
C27_TwoEntriesOneComponent ==
  \E i \in DOMAIN calls :
    /\ Done(i)
    /\ Len(calls[i].result.breakdown) = 3
    /\ Cardinality(EntriesOf(i, "environmental_discounts")) = 2
    /\ AutomaticEntries(i) # {}
    /\ calls[i].result.components["environmental_discounts"]
         = CostOfEntries(calls[i].result.breakdown,
                         EntriesOf(i, "environmental_discounts"))

\* The rule carries a greater-than condition on the sludge volume whose
\* threshold is 11.
HasThreshold11(rule) ==
  \E k \in 1..Len(rule.conditions) :
    /\ rule.conditions[k].field \in {"quantity", "sludge_volume"}
    /\ rule.conditions[k].operator \in {"gt", ">", "greater_than", "more than"}
    /\ rule.conditions[k].value = Num(11)

\* The cost of a rule billed on the raw volume of the call.
RawVolumeCost(i, rule) == CalculateComponentCost(rule, ContextOf(i), NoneV)

\* C28: in the result of a call, a per-volume sludge rule that has no
\* greater-than condition with threshold 11 (another threshold such as 110,
\* or no such condition) is billed on the raw volume: each of its entries
\* costs rate x volume_m3; and an entry billed on sludge_volume - 11
\* instead belongs to a rule with that condition, in a call with
\* sludge_volume > 11.
C28_OverrideOnlyForThreshold11 ==
  \A i \in DOMAIN calls :
    Done(i) =>
      \A p \in 1..Len(calls[i].sorted_rules) :
        LET rule == calls[i].sorted_rules[p]
            sludge == ContextGetOr(calls[i].parameters, "sludge_volume", Num(0)).n
        IN IsPerVolumeSludge(rule) =>
             \A k \in LinesOfRule(i, rule) :
               \/ calls[i].result.breakdown[k].cost = RawVolumeCost(i, rule)
               \/ /\ HasThreshold11(rule)
                  /\ sludge > 11
                  /\ calls[i].result.breakdown[k].cost
                       = rule.pricing.rate.n * (sludge - 11)

\* The value the claim matches the bands of a rule against: the volume, or
\* the tonnage when no volume was supplied, for a rule billed per m3 or per
\* ton; the gross tonnage for every other charging method.
ClaimedBandValue(i, rule) ==
  LET parameters == calls[i].parameters
  IN IF rule.charging_method \in {"per_m3", "per_ton"}
     THEN IF "volume_m3" \in DOMAIN parameters THEN parameters["volume_m3"].n
          ELSE IF "tonnage" \in DOMAIN parameters THEN parameters["tonnage"].n
          ELSE 0
     ELSE IF "gt" \in DOMAIN parameters THEN parameters["gt"].n ELSE 0

\* The band of the rule ("standard" first, then "gt_range") that contains
\* the claimed band value.
ClaimedBand(i, rule) ==
  LET standard == FindApplicableBand(rule, ClaimedBandValue(i, rule), "standard")
  IN IF standard # <<>> THEN standard
     ELSE FindApplicableBand(rule, ClaimedBandValue(i, rule), "gt_range")

\* C29: in the result of a call, a banded rule is matched against gt when
\* it is billed per GT or by any other method, and against the supplied
\* volume, or the supplied tonnage when no volume was supplied, when it is
\* billed per m3 or per ton: the rule has an entry only if a band contains
\* that value, the entry names that band, and an applicable rule with such
\* a band and a nonzero cost has an entry.
C29_BandValueByChargingMethod ==
  \A i \in DOMAIN calls :
    Done(i) =>
      \A p \in 1..Len(calls[i].sorted_rules) :
        LET rule == calls[i].sorted_rules[p]
            band == ClaimedBand(i, rule)
        IN rule.bands # <<>> =>
             /\ \A k \in LinesOfRule(i, rule) :
                  /\ band # <<>>
                  /\ calls[i].result.breakdown[k].details["band"]
                       = Str(BandLabel(band[1]))
             /\ (/\ band # <<>>
                 /\ CheckRuleApplicable(rule, ContextOf(i))
                 /\ RawVolumeCost(i, rule) # 0)
                  => LinesOfRule(i, rule) # {}

\* The entries of the log of node executions that belong to a node.
RunsOf(node) ==
  {k \in 1..Len(workflow.log) : workflow.log[k].node = node}

\* C30: in every run of the workflow graph, each execution of
\* response_generator comes after an execution of retriever and one of
\* tariff_computation, reads a state whose calculation_result is set, and
\* there is at most one such execution.
C30_ResponseAfterBothBranches ==
  workflow.pc \in {"running", "finished"} =>
    /\ \A k \in RunsOf("response_generator") :
         /\ \E r \in RunsOf("retriever") : r < k
         /\ \E c \in RunsOf("tariff_computation") : c < k
         /\ workflow.log[k].read.calculation_result # <<>>
    /\ Cardinality(RunsOf("response_generator")) <= 1

====
